---------------------------- MODULE Spec2Model ----------------------------
(***************************************************************************)
(* Fixed-point propagation solvers of the Otto cycle (src/otto_solver.py)  *)
(* and the Diesel cycle (src/thermo/diesel_solver.py).                     *)
(*                                                                         *)
(* A cycle state is a function from field names to values.  A value is the *)
(* unknown marker NaN, the mark "in" of a number supplied by the caller,   *)
(* or the text of the assignment that computed it ("T2=T1*r^(gamma-1)"):   *)
(* two values are equal when the same formula of the source produced them. *)
(* Arithmetic on floats is modelled by Arith: a result is NaN as soon as   *)
(* one operand is NaN, whatever the guard of the branch tested.            *)
(***************************************************************************)
EXTENDS Integers, FiniteSets, Sequences, TLC

VARIABLES
    cycle,               \* which solver runs: "otto" or "diesel"
    cold_air_standard,   \* the mode flag of the solve
    variables,           \* the dict the solver mutates
    pc,                  \* position in solve_*_cycle
    counter,             \* the pass counter of the while loop
    previous_nan_count,  \* the loop's previous_nan_count
    init,                \* history: the dict as the caller passed it in
    stamp,               \* history: <<pass, block>> at which a field was committed
    data,                \* a table lookup: the (axis, target) rows as stored
    arg,                 \* a table lookup: the input argument
    output               \* a table lookup: the function called and its result

solverVars == <<cycle, cold_air_standard, variables, pc, counter,
                previous_nan_count, init, stamp>>

lookupVars == <<data, arg, output>>

vars == <<cycle, cold_air_standard, variables, pc, counter, previous_nan_count,
          init, stamp, data, arg, output>>

\* Bounds of the model: the caller supplies at most MaxGiven fields, or all
\* fields but at most MaxMissing, or one of the Scenarios.
MaxGiven == 2
MaxMissing == 1

\* Input sets larger than MaxGiven that the documented use cases name.
Scenarios ==
    { {"gamma", "R", "r", "T1", "P1"},
      {"r", "rc", "gamma", "T1"},
      {"T1", "r", "Wi"},
      {"T1", "Qc", "u4"},
      {"T2", "T3", "P2"},
      {"P1", "r", "T2", "T3"},
      {"T1", "P1", "r", "rc"},
      {"T1", "T2", "T3", "T4"} }

NaN == "nan"
Given == "in"

known(var) == var # NaN
unknown(var) == var = NaN

\* IEEE arithmetic: any NaN operand makes the result NaN.
Arith(tag, operands) == IF \E x \in operands : unknown(x) THEN NaN ELSE tag

\* np.interp over a table column: NaN in, NaN out.
get_apdx_7(tag, input) == IF unknown(input) THEN NaN ELSE tag

SystemFields(c) ==
    IF c = "otto"
    THEN {"r", "R", "cv", "gamma", "Qh", "Qc", "Wi", "Wo", "W", "n"}
    ELSE {"r", "rc", "R", "cv", "cp", "gamma", "Qh", "Qc", "Wi", "Wo", "W", "n"}

StateFields(i) ==
    CASE i = 1 -> {"T1", "P1", "v1", "s1", "h1", "u1"}
      [] i = 2 -> {"T2", "P2", "v2", "s2", "h2", "u2"}
      [] i = 3 -> {"T3", "P3", "v3", "s3", "h3", "u3"}
      [] i = 4 -> {"T4", "P4", "v4", "s4", "h4", "u4"}

Fields(c) == SystemFields(c) \cup StateFields(1) \cup StateFields(2)
                 \cup StateFields(3) \cup StateFields(4)

define_empty_variables(c) == [f \in Fields(c) |-> NaN]

count_nans(s) == Cardinality({f \in DOMAIN s : unknown(s[f])})

\* One statement after another: x is evaluated once, F runs on its value.
Then(x, F(_)) == CHOOSE y \in {F(v) : v \in {x}} : TRUE

\* vars['k']['x'] = local, for the fields a block stores.
Commit(s, l, stored) ==
    Then(l, LAMBDA v : [f \in DOMAIN s |-> IF f \in stored THEN v[f] ELSE s[f]])

(***************************************************************************)
(* Otto cycle: system_variables                                            *)
(***************************************************************************)
otto_system_r(s) ==
    IF known(s.r) THEN s
    ELSE IF known(s.v1) /\ known(s.v2)
         THEN [s EXCEPT !.r = Arith("r=v1/v2", {s.v1, s.v2})]
    ELSE IF known(s.P1) /\ known(s.P2)
         THEN [s EXCEPT !.r = Arith("r=(P2/P1)^(1/gamma)", {s.P2, s.P1, s.gamma})]
    ELSE IF known(s.T1) /\ known(s.T2)
         THEN [s EXCEPT !.r = Arith("r=(T2/T1)^(1/(gamma-1))", {s.T2, s.T1, s.gamma})]
    ELSE s

otto_system_Qh(s, cas) ==
    IF known(s.Qh) THEN s
    ELSE IF cas
         THEN IF known(s.cv) /\ known(s.T3) /\ known(s.T2)
              THEN [s EXCEPT !.Qh = Arith("Qh=cv*(T3-T2)", {s.cv, s.T3, s.T2})]
              ELSE s
         ELSE IF known(s.u3) /\ known(s.u2)
              THEN [s EXCEPT !.Qh = Arith("Qh=u3-u2", {s.u3, s.u2})]
              ELSE s

otto_system_Qc(s, cas) ==
    IF known(s.Qc) THEN s
    ELSE IF cas
         THEN IF known(s.cv) /\ known(s.T4) /\ known(s.T1)
              THEN [s EXCEPT !.Qc = Arith("Qc=cv*(T4-T1)", {s.cv, s.T4, s.T1})]
              ELSE s
         ELSE IF known(s.u4) /\ known(s.u1)
              THEN [s EXCEPT !.Qc = Arith("Qc=u4-u1", {s.u4, s.u1})]
              ELSE s

otto_system_Wi(s, cas) ==
    IF known(s.Wi) THEN s
    ELSE IF cas
         THEN IF known(s.cv) /\ known(s.T2) /\ known(s.T1)
              THEN [s EXCEPT !.Wi = Arith("Wi=cv*(T2-T1)", {s.cv, s.T2, s.T1})]
              ELSE s
         ELSE IF known(s.h1) /\ known(s.h2)
              THEN [s EXCEPT !.Wi = Arith("Wi=h2-h1", {s.h2, s.h1})]
              ELSE s

otto_system_Wo(s, cas) ==
    IF known(s.Wo) THEN s
    ELSE IF cas
         THEN IF known(s.cv) /\ known(s.T3) /\ known(s.T4)
              THEN [s EXCEPT !.Wo = Arith("Wo=cv*(T3-T4)", {s.cv, s.T3, s.T4})]
              ELSE s
         ELSE IF known(s.h3) /\ known(s.h4)
              THEN [s EXCEPT !.Wo = Arith("Wo=h3-h4", {s.h3, s.h4})]
              ELSE s

system_W(s) ==
    IF known(s.W) THEN s
    ELSE IF known(s.Qh) /\ known(s.Qc)
         THEN [s EXCEPT !.W = Arith("W=Qh-Qc", {s.Qh, s.Qc})]
    ELSE IF known(s.Wo) /\ known(s.Wi)
         THEN [s EXCEPT !.W = Arith("W=Wo-Wi", {s.Wo, s.Wi})]
    ELSE s

system_n(s) ==
    IF known(s.n) THEN s
    ELSE IF known(s.W) /\ known(s.Qh)
         THEN [s EXCEPT !.n = Arith("n=W/Qh", {s.W, s.Qh})]
    ELSE s

otto_system_variables(s, cas) ==
    Then(Then(Then(Then(Then(Then(otto_system_r(s),
         LAMBDA l : otto_system_Qh(l, cas)),
         LAMBDA l : otto_system_Qc(l, cas)),
         LAMBDA l : otto_system_Wi(l, cas)),
         LAMBDA l : otto_system_Wo(l, cas)),
         system_W),
         system_n)


(***************************************************************************)
(* Otto cycle: step_1.  The block works on locals l read from the dict at  *)
(* its top; T1 is computed in the local only and never stored.             *)
(***************************************************************************)
otto_step_1_v(l) ==
    IF known(l.v1) THEN l
    ELSE IF known(l.v4)
         THEN [l EXCEPT !.v1 = Arith("v1=v4", {l.v4})]
    ELSE IF known(l.v2) /\ known(l.r)
         THEN [l EXCEPT !.v1 = Arith("v1=r*v2", {l.r, l.v2})]
    ELSE IF known(l.T1) /\ known(l.P1) /\ known(l.R)
         THEN [l EXCEPT !.v1 = Arith("v1=R*T1/P1", {l.R, l.T1, l.P1})]
    ELSE l

otto_step_1_T(l, cas) ==
    IF known(l.T1) THEN l
    ELSE LET chain ==
                 IF known(l.T2) /\ known(l.r) /\ known(l.gamma)
                 THEN Arith("T1=T2/r^(gamma-1)", {l.T2, l.r, l.gamma})
                 ELSE IF known(l.T4) /\ known(l.P4) /\ known(l.P1)
                 THEN Arith("T1=T4*(P1/P4)", {l.T4, l.P1, l.P4})
                 ELSE IF known(l.u1)
                 THEN get_apdx_7("T1=apdx7(u1)", l.u1)
                 ELSE IF known(l.h1)
                 THEN get_apdx_7("T1=apdx7(h1)", l.h1)
                 ELSE l.T1
             cold ==
                 IF cas
                 THEN IF known(l.Qc) /\ known(l.cv) /\ known(l.T4)
                      THEN Arith("T1=T4-Qc/cv", {l.T4, l.Qc, l.cv})
                      ELSE IF known(l.Wi) /\ known(l.cv) /\ known(l.T2)
                      THEN Arith("T1=T2-Wi/cv", {l.T2, l.Wi, l.cv})
                      ELSE chain
                 ELSE chain
         IN [l EXCEPT !.T1 = cold]

otto_step_1_P(l) ==
    IF known(l.P1) THEN l
    ELSE IF known(l.P2) /\ known(l.r) /\ known(l.gamma)
         THEN [l EXCEPT !.P1 = Arith("P1=P2/r^gamma", {l.P2, l.r, l.gamma})]
    ELSE IF known(l.T1) /\ known(l.v1) /\ known(l.R)
         THEN [l EXCEPT !.P1 = Arith("P1=R*T1/v1", {l.R, l.T1, l.v1})]
    ELSE IF known(l.T1) /\ known(l.T4) /\ known(l.P4)
         THEN [l EXCEPT !.P1 = Arith("P1=(T1/T4)*P4", {l.T1, l.T4, l.P4})]
    ELSE l

step_1_h(l) ==
    IF known(l.h1) THEN l
    ELSE IF known(l.T1)
         THEN [l EXCEPT !.h1 = get_apdx_7("h1=apdx7(T1)", l.T1)]
    ELSE l

step_1_u(l) ==
    IF known(l.u1) THEN l
    ELSE IF known(l.T1)
         THEN [l EXCEPT !.u1 = get_apdx_7("u1=apdx7(T1)", l.T1)]
    ELSE l

\* The stores of a step_1 that also stored its local T1.
Step1Stored_with_T == {"v1", "T1", "P1", "h1", "u1"}

\* The stores of step_1: vars['1']['v'], ['P'], ['h'], ['u'].
Step1Stored == {"v1", "P1", "h1", "u1"}

otto_step_1(s, cas) ==
    Commit(s,
      Then(Then(Then(Then(otto_step_1_v(s),
         LAMBDA l : otto_step_1_T(l, cas)),
         otto_step_1_P),
         step_1_h),
         step_1_u),
      Step1Stored)

(***************************************************************************)
(* Otto cycle: step_2                                                      *)
(***************************************************************************)
otto_step_2_v(l) ==
    IF known(l.v2) THEN l
    ELSE IF known(l.v1) /\ known(l.r)
         THEN [l EXCEPT !.v2 = Arith("v2=v1/r", {l.v1, l.r})]
    ELSE IF known(l.v3)
         THEN [l EXCEPT !.v2 = Arith("v2=v3", {l.v3})]
    ELSE IF known(l.T2) /\ known(l.P2) /\ known(l.R)
         THEN [l EXCEPT !.v2 = Arith("v2=R*T2/P2", {l.R, l.T2, l.P2})]
    ELSE l

otto_step_2_T(l, cas) ==
    IF known(l.T2) THEN l
    ELSE LET chain ==
                 IF known(l.T1) /\ known(l.r) /\ known(l.gamma)
                 THEN Arith("T2=T1*r^(gamma-1)", {l.T1, l.r, l.gamma})
                 ELSE IF known(l.T3) /\ known(l.P2) /\ known(l.P3)
                 THEN Arith("T2=T3*(P2/P3)", {l.T3, l.P2, l.P3})
                 ELSE IF known(l.u2)
                 THEN get_apdx_7("T2=apdx7(u2)", l.u2)
                 ELSE IF known(l.h2)
                 THEN get_apdx_7("T2=apdx7(h2)", l.h2)
                 ELSE l.T2
             cold ==
                 IF cas
                 THEN IF known(l.Qh) /\ known(l.cv) /\ known(l.T3)
                      THEN Arith("T2=T3-Qh/cv", {l.T3, l.Qh, l.cv})
                      ELSE IF known(l.Wi) /\ known(l.cv) /\ known(l.T1)
                      THEN Arith("T2=Wi/cv+T1", {l.Wi, l.cv, l.T1})
                      ELSE chain
                 ELSE chain
         IN [l EXCEPT !.T2 = cold]

\* step_2's pressure section with the ideal-gas branch only.
otto_step_2_P_ideal_gas_only(l) ==
    IF known(l.P2) THEN l
    ELSE IF known(l.T2) /\ known(l.v2) /\ known(l.R)
         THEN [l EXCEPT !.P2 = Arith("P2=R*T2/v2", {l.R, l.T2, l.v2})]
    ELSE l

otto_step_2_P(l) ==
    IF known(l.P2) THEN l
    ELSE IF known(l.P1) /\ known(l.r) /\ known(l.gamma)
         THEN [l EXCEPT !.P2 = Arith("P2=P1*r^gamma", {l.P1, l.r, l.gamma})]
    ELSE IF known(l.T2) /\ known(l.T3) /\ known(l.P3)
         THEN [l EXCEPT !.P2 = Arith("P2=P3*(T2/T3)", {l.P3, l.T2, l.T3})]
    ELSE IF known(l.T2) /\ known(l.v2) /\ known(l.R)
         THEN [l EXCEPT !.P2 = Arith("P2=R*T2/v2", {l.R, l.T2, l.v2})]
    ELSE l

\* step_2's entropy section without the test that s2 is still unknown.
step_2_s_overwrite(l) ==
    IF known(l.s1) THEN [l EXCEPT !.s2 = "s2=s1"] ELSE l

\* step_2's entropy section without the test that s1 is known.
step_2_s_untested(l) ==
    IF known(l.s2) THEN l ELSE [l EXCEPT !.s2 = "s2=s1"]

step_2_s(l) ==
    IF known(l.s2) THEN l
    ELSE IF known(l.s1)
         THEN [l EXCEPT !.s2 = Arith("s2=s1", {l.s1})]
    ELSE l

step_2_h(l) ==
    IF known(l.h2) THEN l
    ELSE IF known(l.T2)
         THEN [l EXCEPT !.h2 = get_apdx_7("h2=apdx7(T2)", l.T2)]
    ELSE l

step_2_u(l) ==
    IF known(l.u2) THEN l
    ELSE IF known(l.T2)
         THEN [l EXCEPT !.u2 = get_apdx_7("u2=apdx7(T2)", l.T2)]
    ELSE l

otto_step_2(s, cas) ==
    Commit(s,
      Then(Then(Then(Then(Then(otto_step_2_v(s),
         LAMBDA l : otto_step_2_T(l, cas)),
         otto_step_2_P),
         step_2_s),
         step_2_h),
         step_2_u),
      StateFields(2))

(***************************************************************************)
(* Otto cycle: step_3.  The first P3 branch tests P3 itself and reads P2   *)
(* untested.                                                               *)
(***************************************************************************)
otto_step_3_v(l) ==
    IF known(l.v3) THEN l
    ELSE IF known(l.v2)
         THEN [l EXCEPT !.v3 = Arith("v3=v2", {l.v2})]
    ELSE IF known(l.T3) /\ known(l.P3) /\ known(l.R)
         THEN [l EXCEPT !.v3 = Arith("v3=R*T3/P3", {l.R, l.T3, l.P3})]
    ELSE l

otto_step_3_T(l, cas) ==
    IF known(l.T3) THEN l
    ELSE LET chain ==
                 IF known(l.T2) /\ known(l.P2) /\ known(l.P3)
                 THEN Arith("T3=T2*(P3/P2)", {l.T2, l.P3, l.P2})
                 ELSE IF known(l.T4) /\ known(l.v4) /\ known(l.v3) /\ known(l.gamma)
                 THEN Arith("T3=T4*(v4/v3)^(gamma-1)", {l.T4, l.v4, l.v3, l.gamma})
                 ELSE IF known(l.u3)
                 THEN get_apdx_7("T3=apdx7(u3)", l.u3)
                 ELSE IF known(l.h3)
                 THEN get_apdx_7("T3=apdx7(h3)", l.h3)
                 ELSE l.T3
             cold ==
                 IF cas
                 THEN IF known(l.Qh) /\ known(l.cv) /\ known(l.T2)
                      THEN Arith("T3=Qh/cv+T2", {l.Qh, l.cv, l.T2})
                      ELSE IF known(l.Wo) /\ known(l.cv) /\ known(l.T4)
                      THEN Arith("T3=Wo/cv+T4", {l.Wo, l.cv, l.T4})
                      ELSE chain
                 ELSE chain
         IN [l EXCEPT !.T3 = cold]

otto_step_3_P(l) ==
    IF known(l.P3) THEN l
    ELSE IF known(l.T2) /\ known(l.T3) /\ known(l.P3)
         THEN [l EXCEPT !.P3 = Arith("P3=P2*(T3/T2)", {l.P2, l.T3, l.T2})]
    ELSE IF known(l.P4) /\ known(l.v4) /\ known(l.v3) /\ known(l.gamma)
         THEN [l EXCEPT !.P3 = Arith("P3=P4*(v4/v3)^gamma", {l.P4, l.v4, l.v3, l.gamma})]
    ELSE IF known(l.T3) /\ known(l.v3) /\ known(l.R)
         THEN [l EXCEPT !.P3 = Arith("P3=R*T3/v3", {l.R, l.T3, l.v3})]
    ELSE l

step_3_s(l) ==
    IF known(l.s3) THEN l
    ELSE IF known(l.s4)
         THEN [l EXCEPT !.s3 = Arith("s3=s4", {l.s4})]
    ELSE l

step_3_h(l) ==
    IF known(l.h3) THEN l
    ELSE IF known(l.T3)
         THEN [l EXCEPT !.h3 = get_apdx_7("h3=apdx7(T3)", l.T3)]
    ELSE l

step_3_u(l) ==
    IF known(l.u3) THEN l
    ELSE IF known(l.T3)
         THEN [l EXCEPT !.u3 = get_apdx_7("u3=apdx7(T3)", l.T3)]
    ELSE l

otto_step_3(s, cas) ==
    Commit(s,
      Then(Then(Then(Then(Then(otto_step_3_v(s),
         LAMBDA l : otto_step_3_T(l, cas)),
         otto_step_3_P),
         step_3_s),
         step_3_h),
         step_3_u),
      StateFields(3))

(***************************************************************************)
(* Otto cycle: step_4                                                      *)
(***************************************************************************)
otto_step_4_v(l) ==
    IF known(l.v4) THEN l
    ELSE LET a == IF known(l.v1) THEN Arith("v4=v1", {l.v1}) ELSE l.v4
             b == IF unknown(a) /\ known(l.T4) /\ known(l.P4) /\ known(l.R)
                  THEN Arith("v4=R*T4/P4", {l.R, l.T4, l.P4})
                  ELSE IF unknown(a) /\ known(l.T3) /\ known(l.T4)
                          /\ known(l.v3) /\ known(l.gamma)
                  THEN Arith("v4=v3*(T3/T4)^(1/(gamma-1))", {l.v3, l.T3, l.T4, l.gamma})
                  ELSE a
         IN [l EXCEPT !.v4 = b]

\* A T4 chain that tries the table inversions before the closed forms.
otto_step_4_T_table_first(l, cas) ==
    IF known(l.T4) THEN l
    ELSE IF known(l.u4)
         THEN [l EXCEPT !.T4 = get_apdx_7("T4=apdx7(u4)", l.u4)]
    ELSE IF known(l.h4)
         THEN [l EXCEPT !.T4 = get_apdx_7("T4=apdx7(h4)", l.h4)]
    ELSE IF known(l.T3) /\ known(l.v3) /\ known(l.v4) /\ known(l.gamma)
         THEN [l EXCEPT !.T4 = Arith("T4=T3*(v3/v4)^(gamma-1)", {l.T3, l.v3, l.v4, l.gamma})]
    ELSE l

otto_step_4_T(l, cas) ==
    IF known(l.T4) THEN l
    ELSE LET chain ==
                 IF known(l.T3) /\ known(l.v3) /\ known(l.v4) /\ known(l.gamma)
                 THEN Arith("T4=T3*(v3/v4)^(gamma-1)", {l.T3, l.v3, l.v4, l.gamma})
                 ELSE IF known(l.P4) /\ known(l.P1) /\ known(l.T1)
                 THEN Arith("T4=(P4/P1)*T1", {l.P4, l.P1, l.T1})
                 ELSE IF known(l.u4)
                 THEN get_apdx_7("T4=apdx7(u4)", l.u4)
                 ELSE IF known(l.h4)
                 THEN get_apdx_7("T4=apdx7(h4)", l.h4)
                 ELSE l.T4
             cold ==
                 IF cas
                 THEN IF known(l.Qc) /\ known(l.cv) /\ known(l.T1)
                      THEN Arith("T4=Qc/cv+T1", {l.Qc, l.cv, l.T1})
                      ELSE IF known(l.Wo) /\ known(l.cv) /\ known(l.T3)
                      THEN Arith("T4=T3-Wo/cv", {l.T3, l.Wo, l.cv})
                      ELSE chain
                 ELSE chain
         IN [l EXCEPT !.T4 = cold]

otto_step_4_P(l) ==
    IF known(l.P4) THEN l
    ELSE IF known(l.P3) /\ known(l.v3) /\ known(l.v4) /\ known(l.gamma)
         THEN [l EXCEPT !.P4 = Arith("P4=P3*(v3/v4)^gamma", {l.P3, l.v3, l.v4, l.gamma})]
    ELSE IF known(l.T4) /\ known(l.v4) /\ known(l.R)
         THEN [l EXCEPT !.P4 = Arith("P4=R*T4/v4", {l.R, l.T4, l.v4})]
    ELSE IF known(l.T4) /\ known(l.T1) /\ known(l.P1)
         THEN [l EXCEPT !.P4 = Arith("P4=(T4/T1)*P1", {l.T4, l.T1, l.P1})]
    ELSE l

step_4_s(l) ==
    IF known(l.s4) THEN l
    ELSE IF known(l.s3)
         THEN [l EXCEPT !.s4 = Arith("s4=s3", {l.s3})]
    ELSE l

step_4_h(l) ==
    IF known(l.h4) THEN l
    ELSE IF known(l.T4)
         THEN [l EXCEPT !.h4 = get_apdx_7("h4=apdx7(T4)", l.T4)]
    ELSE l

step_4_u(l) ==
    IF known(l.u4) THEN l
    ELSE IF known(l.T4)
         THEN [l EXCEPT !.u4 = get_apdx_7("u4=apdx7(T4)", l.T4)]
    ELSE l

otto_step_4(s, cas) ==
    Commit(s,
      Then(Then(Then(Then(Then(otto_step_4_v(s),
         LAMBDA l : otto_step_4_T(l, cas)),
         otto_step_4_P),
         step_4_s),
         step_4_h),
         step_4_u),
      StateFields(4))

(***************************************************************************)
(* Diesel cycle: system_variables.  Qh and Qc have no cold-air-standard    *)
(* formula; Wi and Wo have one formula for both modes.                     *)
(***************************************************************************)
diesel_system_rc(s) ==
    IF known(s.rc) THEN s
    ELSE IF known(s.v2) /\ known(s.v3)
         THEN [s EXCEPT !.rc = Arith("rc=v3/v2", {s.v3, s.v2})]
    ELSE IF known(s.T2) /\ known(s.T3)
         THEN [s EXCEPT !.rc = Arith("rc=T3/T2", {s.T3, s.T2})]
    ELSE s

diesel_system_Qh(s, cas) ==
    IF known(s.Qh) THEN s
    ELSE IF known(s.h3) /\ (known(s.h2) /\ ~cas)
         THEN [s EXCEPT !.Qh = Arith("Qh=h3-h2", {s.h3, s.h2})]
    ELSE s

diesel_system_Qc(s, cas) ==
    IF known(s.Qc) THEN s
    ELSE IF known(s.u4) /\ (known(s.u1) /\ ~cas)
         THEN [s EXCEPT !.Qc = Arith("Qc=u4-u1", {s.u4, s.u1})]
    ELSE s

diesel_system_Wi(s) ==
    IF known(s.Wi) THEN s
    ELSE IF known(s.u1) /\ known(s.u2)
         THEN [s EXCEPT !.Wi = Arith("Wi=u1-u2", {s.u1, s.u2})]
    ELSE s

diesel_system_Wo(s) ==
    IF known(s.Wo) THEN s
    ELSE IF known(s.P2) /\ known(s.v2) /\ known(s.v3) /\ known(s.u3) /\ known(s.u4)
         THEN [s EXCEPT !.Wo = Arith("Wo=P2*(v3-v2)+(u3-u4)",
                                     {s.P2, s.v3, s.v2, s.u3, s.u4})]
    ELSE s

\* The r relations are the same text in both solvers.
diesel_system_variables(s, cas) ==
    Then(Then(Then(Then(Then(Then(Then(otto_system_r(s),
         diesel_system_rc),
         LAMBDA l : diesel_system_Qh(l, cas)),
         LAMBDA l : diesel_system_Qc(l, cas)),
         diesel_system_Wi),
         diesel_system_Wo),
         system_W),
         system_n)

(***************************************************************************)
(* Diesel cycle: step_1 .. step_4.  Candidates after the first are         *)
(* separate ifs that test the local again.  T1 is never stored here either.*)
(***************************************************************************)
diesel_step_1_T(l) ==
    IF known(l.T1) THEN l
    ELSE LET a == IF known(l.T2) /\ known(l.r) /\ known(l.gamma)
                  THEN Arith("T1=T2/r^(gamma-1)", {l.T2, l.r, l.gamma})
                  ELSE l.T1
             b == IF unknown(a) /\ known(l.T4) /\ known(l.P4) /\ known(l.P1)
                  THEN Arith("T1=T4*(P1/P4)", {l.T4, l.P1, l.P4})
                  ELSE a
             c == IF unknown(b) /\ known(l.u1)
                  THEN get_apdx_7("T1=apdx7(u1)", l.u1)
                  ELSE b
             d == IF unknown(c) /\ known(l.h1)
                  THEN get_apdx_7("T1=apdx7(h1)", l.h1)
                  ELSE c
         IN [l EXCEPT !.T1 = d]

diesel_step_1_P(l) ==
    IF known(l.P1) THEN l
    ELSE LET a == IF known(l.P2) /\ known(l.r) /\ known(l.gamma)
                  THEN Arith("P1=P2/r^gamma", {l.P2, l.r, l.gamma})
                  ELSE l.P1
             b == IF unknown(a) /\ known(l.T1) /\ known(l.v1) /\ known(l.R)
                  THEN Arith("P1=R*T1/v1", {l.R, l.T1, l.v1})
                  ELSE a
             c == IF unknown(b) /\ known(l.T1) /\ known(l.T4) /\ known(l.P4)
                  THEN Arith("P1=(T1/T4)*P4", {l.T1, l.T4, l.P4})
                  ELSE b
         IN [l EXCEPT !.P1 = c]

\* The v1 relations are the same text in both solvers.
diesel_step_1(s) ==
    Commit(s,
      Then(Then(Then(Then(otto_step_1_v(s),
         diesel_step_1_T),
         diesel_step_1_P),
         step_1_h),
         step_1_u),
      Step1Stored)

diesel_step_2_v(l) ==
    IF known(l.v2) THEN l
    ELSE IF known(l.v1) /\ known(l.r)
         THEN [l EXCEPT !.v2 = Arith("v2=v1/r", {l.v1, l.r})]
    ELSE IF known(l.v3) /\ known(l.rc)
         THEN [l EXCEPT !.v2 = Arith("v2=v3/rc", {l.v3, l.rc})]
    ELSE IF known(l.T2) /\ known(l.P2) /\ known(l.R)
         THEN [l EXCEPT !.v2 = Arith("v2=R*T2/P2", {l.R, l.T2, l.P2})]
    ELSE l

diesel_step_2_T(l) ==
    IF known(l.T2) THEN l
    ELSE IF known(l.T1) /\ known(l.r) /\ known(l.gamma)
         THEN [l EXCEPT !.T2 = Arith("T2=T1*r^(gamma-1)", {l.T1, l.r, l.gamma})]
    ELSE IF known(l.T3) /\ known(l.rc)
         THEN [l EXCEPT !.T2 = Arith("T2=T3/rc", {l.T3, l.rc})]
    ELSE IF known(l.u2)
         THEN [l EXCEPT !.T2 = get_apdx_7("T2=apdx7(u2)", l.u2)]
    ELSE IF known(l.h2)
         THEN [l EXCEPT !.T2 = get_apdx_7("T2=apdx7(h2)", l.h2)]
    ELSE l

diesel_step_2_P(l) ==
    IF known(l.P2) THEN l
    ELSE IF known(l.P1) /\ known(l.r) /\ known(l.gamma)
         THEN [l EXCEPT !.P2 = Arith("P2=P1*r^gamma", {l.P1, l.r, l.gamma})]
    ELSE IF known(l.P3)
         THEN [l EXCEPT !.P2 = Arith("P2=P3", {l.P3})]
    ELSE IF known(l.T2) /\ known(l.v2) /\ known(l.R)
         THEN [l EXCEPT !.P2 = Arith("P2=R*T2/v2", {l.R, l.T2, l.v2})]
    ELSE l

diesel_step_2(s) ==
    Commit(s,
      Then(Then(Then(Then(Then(diesel_step_2_v(s),
         diesel_step_2_T),
         diesel_step_2_P),
         step_2_s),
         step_2_h),
         step_2_u),
      StateFields(2))

diesel_step_3_v(l) ==
    IF known(l.v3) THEN l
    ELSE LET a == IF known(l.v2) /\ known(l.rc)
                  THEN Arith("v3=rc*v2", {l.rc, l.v2})
                  ELSE l.v3
             b == IF unknown(a) /\ known(l.T3) /\ known(l.P3) /\ known(l.R)
                  THEN Arith("v3=R*T3/P3", {l.R, l.T3, l.P3})
                  ELSE a
         IN [l EXCEPT !.v3 = b]

\* step_3's temperature section without the cutoff-ratio branch.
diesel_step_3_T_no_cutoff(l) ==
    IF known(l.T3) THEN l
    ELSE LET b == IF known(l.T4) /\ known(l.v4) /\ known(l.v3) /\ known(l.gamma)
                  THEN Arith("T3=T4*(v4/v3)^(gamma-1)", {l.T4, l.v4, l.v3, l.gamma})
                  ELSE l.T3
             c == IF unknown(b) /\ known(l.u3)
                  THEN get_apdx_7("T3=apdx7(u3)", l.u3)
                  ELSE b
             d == IF unknown(c) /\ known(l.h3)
                  THEN get_apdx_7("T3=apdx7(h3)", l.h3)
                  ELSE c
         IN [l EXCEPT !.T3 = d]

diesel_step_3_T(l) ==
    IF known(l.T3) THEN l
    ELSE LET a == IF known(l.T2) /\ known(l.rc)
                  THEN Arith("T3=T2*rc", {l.T2, l.rc})
                  ELSE l.T3
             b == IF unknown(a) /\ known(l.T4) /\ known(l.v4) /\ known(l.v3)
                     /\ known(l.gamma)
                  THEN Arith("T3=T4*(v4/v3)^(gamma-1)", {l.T4, l.v4, l.v3, l.gamma})
                  ELSE a
             c == IF unknown(b) /\ known(l.u3)
                  THEN get_apdx_7("T3=apdx7(u3)", l.u3)
                  ELSE b
             d == IF unknown(c) /\ known(l.h3)
                  THEN get_apdx_7("T3=apdx7(h3)", l.h3)
                  ELSE c
         IN [l EXCEPT !.T3 = d]

diesel_step_3_P(l) ==
    IF known(l.P3) THEN l
    ELSE LET a == IF known(l.P2) THEN Arith("P3=P2", {l.P2}) ELSE l.P3
             b == IF unknown(a) /\ known(l.P4) /\ known(l.v4) /\ known(l.v3)
                     /\ known(l.gamma)
                  THEN Arith("P3=P4*(v4/v3)^gamma", {l.P4, l.v4, l.v3, l.gamma})
                  ELSE a
             c == IF unknown(b) /\ known(l.T3) /\ known(l.v3) /\ known(l.R)
                  THEN Arith("P3=R*T3/v3", {l.R, l.T3, l.v3})
                  ELSE b
         IN [l EXCEPT !.P3 = c]

diesel_step_3(s) ==
    Commit(s,
      Then(Then(Then(Then(Then(diesel_step_3_v(s),
         diesel_step_3_T),
         diesel_step_3_P),
         step_3_s),
         step_3_h),
         step_3_u),
      StateFields(3))

diesel_step_4_v(l) ==
    IF known(l.v4) THEN l
    ELSE LET a == IF known(l.v1) THEN Arith("v4=v1", {l.v1}) ELSE l.v4
             b == IF unknown(a) /\ known(l.T4) /\ known(l.P4) /\ known(l.R)
                  THEN Arith("v4=R*T4/P4", {l.R, l.T4, l.P4})
                  ELSE a
             c == IF unknown(b) /\ known(l.T3) /\ known(l.T4) /\ known(l.v3)
                     /\ known(l.gamma)
                  THEN Arith("v4=v3*(T3/T4)^(1/(gamma-1))", {l.v3, l.T3, l.T4, l.gamma})
                  ELSE b
         IN [l EXCEPT !.v4 = c]

diesel_step_4_T(l) ==
    IF known(l.T4) THEN l
    ELSE LET a == IF known(l.T3) /\ known(l.v3) /\ known(l.v4) /\ known(l.gamma)
                  THEN Arith("T4=T3*(v3/v4)^(gamma-1)", {l.T3, l.v3, l.v4, l.gamma})
                  ELSE l.T4
             b == IF unknown(a) /\ known(l.P4) /\ known(l.P1) /\ known(l.T1)
                  THEN Arith("T4=(P4/P1)*T1", {l.P4, l.P1, l.T1})
                  ELSE a
             c == IF unknown(b) /\ known(l.u4)
                  THEN get_apdx_7("T4=apdx7(u4)", l.u4)
                  ELSE b
             d == IF unknown(c) /\ known(l.h4)
                  THEN get_apdx_7("T4=apdx7(h4)", l.h4)
                  ELSE c
         IN [l EXCEPT !.T4 = d]

diesel_step_4_P(l) ==
    IF known(l.P4) THEN l
    ELSE LET a == IF known(l.P3) /\ known(l.v3) /\ known(l.v4) /\ known(l.gamma)
                  THEN Arith("P4=P3*(v3/v4)^gamma", {l.P3, l.v3, l.v4, l.gamma})
                  ELSE l.P4
             b == IF unknown(a) /\ known(l.T4) /\ known(l.v4) /\ known(l.R)
                  THEN Arith("P4=R*T4/v4", {l.R, l.T4, l.v4})
                  ELSE a
             c == IF unknown(b) /\ known(l.T4) /\ known(l.T1) /\ known(l.P1)
                  THEN Arith("P4=(T4/T1)*P1", {l.T4, l.T1, l.P1})
                  ELSE b
         IN [l EXCEPT !.P4 = c]

diesel_step_4(s) ==
    Commit(s,
      Then(Then(Then(Then(Then(diesel_step_4_v(s),
         diesel_step_4_T),
         diesel_step_4_P),
         step_4_s),
         step_4_h),
         step_4_u),
      StateFields(4))

(***************************************************************************)
(* The reference tables read while seeding.  A lookup of a gas the table   *)
(* does not hold raises (.values[0] of an empty selection, np.interp over  *)
(* an empty column).                                                       *)
(***************************************************************************)
Raise == "raise"

Apdx1Gases == {"Air"}
Apdx4Gases == {"Air", "CO2", "CO", "H2", "N2", "O2"}

get_apdx_1(gas, tag) == IF gas \in Apdx1Gases THEN tag ELSE Raise

get_apdx_4(gas, tag, input) ==
    IF gas \notin Apdx4Gases THEN Raise
    ELSE IF unknown(input) THEN NaN ELSE tag

(***************************************************************************)
(* solve_otto_cycle / solve_diesel_cycle: seeding of gamma, R, cv, cp      *)
(***************************************************************************)
\* Seeding of gamma without the elif branch that reads the constants table.
seed_gamma_no_fallback(s) ==
    IF unknown(s.gamma) /\ known(s.T1)
    THEN [s EXCEPT !.gamma = get_apdx_4("Air", "gamma=apdx4(T1)", s.T1)]
    ELSE s

seed_gamma(s) ==
    IF unknown(s.gamma) /\ known(s.T1)
    THEN [s EXCEPT !.gamma = get_apdx_4("Air", "gamma=apdx4(T1)", s.T1)]
    ELSE IF unknown(s.gamma)
    THEN [s EXCEPT !.gamma = get_apdx_1("Air", "gamma=apdx1")]
    ELSE s

\* Seeding of R with a gas name the constants table does not hold.
seed_R_wrong_gas(s) ==
    IF unknown(s.R)
    THEN [s EXCEPT !.R = get_apdx_1("air", "R=apdx1")]
    ELSE s

\* Seeding of R without the test that R is unknown.
seed_R_always(s) == [s EXCEPT !.R = get_apdx_1("Air", "R=apdx1")]

seed_R(s) ==
    IF unknown(s.R)
    THEN [s EXCEPT !.R = get_apdx_1("Air", "R=apdx1")]
    ELSE s

seed_cv(s, cas) ==
    IF unknown(s.cv) /\ known(s.T1) /\ cas
    THEN [s EXCEPT !.cv = get_apdx_4("Air", "cv=apdx4(T1)", s.T1)]
    ELSE s

seed_cp(s, cas) ==
    IF unknown(s.cp) /\ known(s.T1) /\ cas
    THEN [s EXCEPT !.cp = get_apdx_4("Air", "cp=apdx4(T1)", s.T1)]
    ELSE s

seed(c, s, cas) ==
    IF c = "otto"
    THEN Then(Then(seed_gamma(s), seed_R), LAMBDA v : seed_cv(v, cas))
    ELSE Then(Then(Then(seed_gamma(s), seed_R), LAMBDA v : seed_cv(v, cas)),
              LAMBDA v : seed_cp(v, cas))

system_variables(c, s, cas) ==
    IF c = "otto" THEN otto_system_variables(s, cas) ELSE diesel_system_variables(s, cas)

step_1(c, s, cas) == IF c = "otto" THEN otto_step_1(s, cas) ELSE diesel_step_1(s)
step_2(c, s, cas) == IF c = "otto" THEN otto_step_2(s, cas) ELSE diesel_step_2(s)
step_3(c, s, cas) == IF c = "otto" THEN otto_step_3(s, cas) ELSE diesel_step_3(s)
\* The fourth call of the pass running the first block again.
step_4_repeats_step_1(c, s, cas) == step_1(c, s, cas)

step_4(c, s, cas) == IF c = "otto" THEN otto_step_4(s, cas) ELSE diesel_step_4(s)

(***************************************************************************)
(* The states a caller can pass in: define_empty_variables with some       *)
(* fields set.                                                             *)
(***************************************************************************)
RECURSIVE SubsetsUpTo(_, _)
SubsetsUpTo(F, k) ==
    IF k = 0 THEN {{}}
    ELSE LET P == SubsetsUpTo(F, k - 1)
         IN P \cup {S \cup {f} : S \in P, f \in F}

GivenSets(c) ==
    SubsetsUpTo(Fields(c), MaxGiven)
        \cup {Fields(c) \ S : S \in SubsetsUpTo(Fields(c), MaxMissing)}
        \cup {S \cap Fields(c) : S \in Scenarios}

CallerState(c, S) ==
    [f \in Fields(c) |-> IF f \in S THEN Given ELSE define_empty_variables(c)[f]]

\* History: the fields that went from unknown to known in this step get <<pass, block>>.
Stamped(old, new, pass, block) ==
    [f \in DOMAIN old |->
        IF unknown(old[f]) /\ known(new[f]) THEN <<pass, block>> ELSE stamp[f]]

\* No table lookup is in progress: an empty table, a placeholder argument
\* and a result that names no function.
NoArg == [type |-> "float", v |-> <<0>>]
NoCall == [func |-> "none", value |-> [ndim |-> 0, v |-> <<0, 1>>]]

Init ==
    /\ cycle \in {"otto", "diesel"}
    /\ cold_air_standard \in BOOLEAN
    /\ \E S \in GivenSets(cycle) : variables = CallerState(cycle, S)
    /\ pc = "seed"
    /\ counter = 0
    /\ previous_nan_count = 0
    /\ init = variables
    /\ stamp = [f \in Fields(cycle) |-> <<0, 0>>]
    /\ data = << >> /\ arg = NoArg /\ output = NoCall

\* Lines up to `counter = 0`: seed the constants, count the unknowns.
Seed ==
    /\ pc = "seed"
    /\ \E s \in {seed(cycle, variables, cold_air_standard)} :
          IF \E f \in DOMAIN s : s[f] = Raise
          THEN /\ pc' = "error"
               /\ UNCHANGED <<variables, previous_nan_count, stamp>>
          ELSE /\ variables' = s
               /\ previous_nan_count' = count_nans(s)
               /\ stamp' = Stamped(variables, s, 0, 0)
               /\ pc' = "system"
    /\ counter' = 0
    /\ UNCHANGED <<cycle, cold_air_standard, init, lookupVars>>

\* Top of the while body: counter += 1, then system_variables.
SystemVariables ==
    /\ pc = "system"
    /\ counter' = counter + 1
    /\ variables' = system_variables(cycle, variables, cold_air_standard)
    /\ stamp' = Stamped(variables, variables', counter', 0)
    /\ pc' = "step_1"
    /\ UNCHANGED <<cycle, cold_air_standard, previous_nan_count, init, lookupVars>>

Step1 ==
    /\ pc = "step_1"
    /\ variables' = step_1(cycle, variables, cold_air_standard)
    /\ stamp' = Stamped(variables, variables', counter, 1)
    /\ pc' = "step_2"
    /\ UNCHANGED <<cycle, cold_air_standard, counter, previous_nan_count, init, lookupVars>>

Step2 ==
    /\ pc = "step_2"
    /\ variables' = step_2(cycle, variables, cold_air_standard)
    /\ stamp' = Stamped(variables, variables', counter, 2)
    /\ pc' = "step_3"
    /\ UNCHANGED <<cycle, cold_air_standard, counter, previous_nan_count, init, lookupVars>>

Step3 ==
    /\ pc = "step_3"
    /\ variables' = step_3(cycle, variables, cold_air_standard)
    /\ stamp' = Stamped(variables, variables', counter, 3)
    /\ pc' = "step_4"
    /\ UNCHANGED <<cycle, cold_air_standard, counter, previous_nan_count, init, lookupVars>>

Step4 ==
    /\ pc = "step_4"
    /\ variables' = step_4(cycle, variables, cold_air_standard)
    /\ stamp' = Stamped(variables, variables', counter, 4)
    /\ pc' = "test"
    /\ UNCHANGED <<cycle, cold_air_standard, counter, previous_nan_count, init, lookupVars>>

\* current_nan_count, the break, previous_nan_count = current_nan_count.
\* The loop test without the test for zero unknowns.
LoopBreak_no_zero_test(current_nan_count, previous) ==
    current_nan_count >= previous

\* The loop test that stops on an increase only, not on an unchanged count.
LoopBreak_strict(current_nan_count, previous) ==
    current_nan_count = 0 \/ current_nan_count > previous

\* A loop that returns after its first pass whatever the counts.
LoopBreak_first_pass(current_nan_count, previous) == TRUE

LoopBreak(current_nan_count, previous) ==
    current_nan_count = 0 \/ current_nan_count >= previous

LoopTest ==
    /\ pc = "test"
    /\ LET current_nan_count == count_nans(variables)
       IN IF LoopBreak(current_nan_count, previous_nan_count)
          THEN /\ pc' = "done"
               /\ UNCHANGED previous_nan_count
          ELSE /\ pc' = "system"
               /\ previous_nan_count' = current_nan_count
    /\ UNCHANGED <<cycle, cold_air_standard, variables, counter, init, stamp, lookupVars>>

Next == Seed \/ SystemVariables \/ Step1 \/ Step2 \/ Step3 \/ Step4 \/ LoopTest

Spec == Init /\ [][Next]_vars

\* The solver is one sequential call: a step that can be taken is taken.
FairSpec == Spec /\ WF_vars(Next)

(***************************************************************************)
(* The candidate formulas of every field as the source lists them, in its  *)
(* numbering: the value a candidate commits, the inputs its formula reads, *)
(* and the mode it is legal in.                                            *)
(***************************************************************************)
Cand(tag, needs, mode) == [tag |-> tag, needs |-> needs, mode |-> mode]

CommonRules(f) ==
    CASE f = "r" -> << Cand("r=v1/v2", {"v1", "v2"}, "any"),
                       Cand("r=(P2/P1)^(1/gamma)", {"P1", "P2", "gamma"}, "any"),
                       Cand("r=(T2/T1)^(1/(gamma-1))", {"T1", "T2", "gamma"}, "any") >>
      [] f = "W" -> << Cand("W=Qh-Qc", {"Qh", "Qc"}, "any"),
                       Cand("W=Wo-Wi", {"Wo", "Wi"}, "any") >>
      [] f = "n" -> << Cand("n=W/Qh", {"W", "Qh"}, "any") >>
      [] f = "v1" -> << Cand("v1=v4", {"v4"}, "any"),
                        Cand("v1=r*v2", {"v2", "r"}, "any"),
                        Cand("v1=R*T1/P1", {"T1", "P1", "R"}, "any") >>
      [] f = "P1" -> << Cand("P1=P2/r^gamma", {"P2", "r", "gamma"}, "any"),
                        Cand("P1=R*T1/v1", {"T1", "v1", "R"}, "any"),
                        Cand("P1=(T1/T4)*P4", {"T1", "T4", "P4"}, "any") >>
      [] f = "h1" -> << Cand("h1=apdx7(T1)", {"T1"}, "any") >>
      [] f = "u1" -> << Cand("u1=apdx7(T1)", {"T1"}, "any") >>
      [] f = "s2" -> << Cand("s2=s1", {"s1"}, "any") >>
      [] f = "h2" -> << Cand("h2=apdx7(T2)", {"T2"}, "any") >>
      [] f = "u2" -> << Cand("u2=apdx7(T2)", {"T2"}, "any") >>
      [] f = "s3" -> << Cand("s3=s4", {"s4"}, "any") >>
      [] f = "h3" -> << Cand("h3=apdx7(T3)", {"T3"}, "any") >>
      [] f = "u3" -> << Cand("u3=apdx7(T3)", {"T3"}, "any") >>
      [] f = "v4" -> << Cand("v4=v1", {"v1"}, "any"),
                        Cand("v4=R*T4/P4", {"T4", "P4", "R"}, "any"),
                        Cand("v4=v3*(T3/T4)^(1/(gamma-1))",
                             {"T3", "T4", "v3", "gamma"}, "any") >>
      [] f = "P4" -> << Cand("P4=P3*(v3/v4)^gamma", {"P3", "v3", "v4", "gamma"}, "any"),
                        Cand("P4=R*T4/v4", {"T4", "v4", "R"}, "any"),
                        Cand("P4=(T4/T1)*P1", {"T4", "T1", "P1"}, "any") >>
      [] f = "s4" -> << Cand("s4=s3", {"s3"}, "any") >>
      [] f = "h4" -> << Cand("h4=apdx7(T4)", {"T4"}, "any") >>
      [] f = "u4" -> << Cand("u4=apdx7(T4)", {"T4"}, "any") >>
      [] OTHER -> << >>

\* T1 and T4 of both solvers, without the cold-air-standard candidates.
TableT(f) ==
    CASE f = "T1" -> << Cand("T1=T2/r^(gamma-1)", {"T2", "r", "gamma"}, "any"),
                        Cand("T1=T4*(P1/P4)", {"T4", "P4", "P1"}, "any"),
                        Cand("T1=apdx7(u1)", {"u1"}, "any"),
                        Cand("T1=apdx7(h1)", {"h1"}, "any") >>
      [] f = "T4" -> << Cand("T4=T3*(v3/v4)^(gamma-1)", {"T3", "v3", "v4", "gamma"}, "any"),
                        Cand("T4=(P4/P1)*T1", {"P4", "P1", "T1"}, "any"),
                        Cand("T4=apdx7(u4)", {"u4"}, "any"),
                        Cand("T4=apdx7(h4)", {"h4"}, "any") >>

OttoRules(f) ==
    CASE f = "Qh" -> << Cand("Qh=cv*(T3-T2)", {"cv", "T3", "T2"}, "cold"),
                        Cand("Qh=u3-u2", {"u3", "u2"}, "general") >>
      [] f = "Qc" -> << Cand("Qc=cv*(T4-T1)", {"cv", "T4", "T1"}, "cold"),
                        Cand("Qc=u4-u1", {"u4", "u1"}, "general") >>
      [] f = "Wi" -> << Cand("Wi=cv*(T2-T1)", {"cv", "T2", "T1"}, "cold"),
                        Cand("Wi=h2-h1", {"h1", "h2"}, "general") >>
      [] f = "Wo" -> << Cand("Wo=cv*(T3-T4)", {"cv", "T3", "T4"}, "cold"),
                        Cand("Wo=h3-h4", {"h3", "h4"}, "general") >>
      [] f = "T1" -> TableT(f) \o
                     << Cand("T1=T4-Qc/cv", {"Qc", "cv", "T4"}, "cold"),
                        Cand("T1=T2-Wi/cv", {"Wi", "cv", "T2"}, "cold") >>
      [] f = "v2" -> << Cand("v2=v1/r", {"v1", "r"}, "any"),
                        Cand("v2=v3", {"v3"}, "any"),
                        Cand("v2=R*T2/P2", {"T2", "P2", "R"}, "any") >>
      [] f = "T2" -> << Cand("T2=T1*r^(gamma-1)", {"T1", "r", "gamma"}, "any"),
                        Cand("T2=T3*(P2/P3)", {"T3", "P2", "P3"}, "any"),
                        Cand("T2=apdx7(u2)", {"u2"}, "any"),
                        Cand("T2=apdx7(h2)", {"h2"}, "any"),
                        Cand("T2=T3-Qh/cv", {"Qh", "cv", "T3"}, "cold"),
                        Cand("T2=Wi/cv+T1", {"Wi", "cv", "T1"}, "cold") >>
      [] f = "P2" -> << Cand("P2=P1*r^gamma", {"P1", "r", "gamma"}, "any"),
                        Cand("P2=P3*(T2/T3)", {"T2", "T3", "P3"}, "any"),
                        Cand("P2=R*T2/v2", {"T2", "v2", "R"}, "any") >>
      [] f = "v3" -> << Cand("v3=v2", {"v2"}, "any"),
                        Cand("v3=R*T3/P3", {"T3", "P3", "R"}, "any") >>
      [] f = "T3" -> << Cand("T3=T2*(P3/P2)", {"T2", "P2", "P3"}, "any"),
                        Cand("T3=T4*(v4/v3)^(gamma-1)", {"T4", "v4", "v3", "gamma"}, "any"),
                        Cand("T3=apdx7(u3)", {"u3"}, "any"),
                        Cand("T3=apdx7(h3)", {"h3"}, "any"),
                        Cand("T3=Qh/cv+T2", {"Qh", "cv", "T2"}, "cold"),
                        Cand("T3=Wo/cv+T4", {"Wo", "cv", "T4"}, "cold") >>
      [] f = "P3" -> << Cand("P3=P2*(T3/T2)", {"T2", "T3", "P2"}, "any"),
                        Cand("P3=P4*(v4/v3)^gamma", {"P4", "v4", "v3", "gamma"}, "any"),
                        Cand("P3=R*T3/v3", {"T3", "v3", "R"}, "any") >>
      [] f = "T4" -> TableT(f) \o
                     << Cand("T4=Qc/cv+T1", {"Qc", "cv", "T1"}, "cold"),
                        Cand("T4=T3-Wo/cv", {"Wo", "cv", "T3"}, "cold") >>
      [] OTHER -> CommonRules(f)

DieselRules(f) ==
    CASE f = "rc" -> << Cand("rc=v3/v2", {"v2", "v3"}, "any"),
                        Cand("rc=T3/T2", {"T2", "T3"}, "any") >>
      [] f = "Qh" -> << Cand("Qh=h3-h2", {"h3", "h2"}, "general") >>
      [] f = "Qc" -> << Cand("Qc=u4-u1", {"u4", "u1"}, "general") >>
      [] f = "Wi" -> << Cand("Wi=u1-u2", {"u1", "u2"}, "any") >>
      [] f = "Wo" -> << Cand("Wo=P2*(v3-v2)+(u3-u4)",
                             {"P2", "v2", "v3", "u3", "u4"}, "any") >>
      [] f = "T1" -> TableT(f)
      [] f = "v2" -> << Cand("v2=v1/r", {"v1", "r"}, "any"),
                        Cand("v2=v3/rc", {"v3", "rc"}, "any"),
                        Cand("v2=R*T2/P2", {"T2", "P2", "R"}, "any") >>
      [] f = "T2" -> << Cand("T2=T1*r^(gamma-1)", {"T1", "r", "gamma"}, "any"),
                        Cand("T2=T3/rc", {"T3", "rc"}, "any"),
                        Cand("T2=apdx7(u2)", {"u2"}, "any"),
                        Cand("T2=apdx7(h2)", {"h2"}, "any") >>
      [] f = "P2" -> << Cand("P2=P1*r^gamma", {"P1", "r", "gamma"}, "any"),
                        Cand("P2=P3", {"P3"}, "any"),
                        Cand("P2=R*T2/v2", {"T2", "v2", "R"}, "any") >>
      [] f = "v3" -> << Cand("v3=rc*v2", {"v2", "rc"}, "any"),
                        Cand("v3=R*T3/P3", {"T3", "P3", "R"}, "any") >>
      [] f = "T3" -> << Cand("T3=T2*rc", {"T2", "rc"}, "any"),
                        Cand("T3=T4*(v4/v3)^(gamma-1)", {"T4", "v4", "v3", "gamma"}, "any"),
                        Cand("T3=apdx7(u3)", {"u3"}, "any"),
                        Cand("T3=apdx7(h3)", {"h3"}, "any") >>
      [] f = "P3" -> << Cand("P3=P2", {"P2"}, "any"),
                        Cand("P3=P4*(v4/v3)^gamma", {"P4", "v4", "v3", "gamma"}, "any"),
                        Cand("P3=R*T3/v3", {"T3", "v3", "R"}, "any") >>
      [] f = "T4" -> TableT(f)
      [] OTHER -> CommonRules(f)

RuleList(c, f) == IF c = "otto" THEN OttoRules(f) ELSE DieselRules(f)

Legal(cand, cas) ==
    cand.mode = "any" \/ (cand.mode = "cold" /\ cas) \/ (cand.mode = "general" /\ ~cas)

Applicable(cand, view, cas) ==
    Legal(cand, cas) /\ \A g \in cand.needs : known(view[g])

\* The value of the earliest applicable candidate of f, NaN when there is none.
FirstApplicable(c, f, view, cas) ==
    LET L == RuleList(c, f)
        I == {i \in 1..Len(L) : Applicable(L[i], view, cas)}
    IN IF I = {} THEN NaN
       ELSE L[CHOOSE i \in I : \A j \in I : i <= j].tag

SomeApplicable(c, f, view, cas) == FirstApplicable(c, f, view, cas) # NaN

\* The order in which a block evaluates its fields (block 0 is system_variables).
SectionOrder(c, b) ==
    CASE b = 0 -> IF c = "otto" THEN << "r", "Qh", "Qc", "Wi", "Wo", "W", "n" >>
                  ELSE << "r", "rc", "Qh", "Qc", "Wi", "Wo", "W", "n" >>
      [] b = 1 -> << "v1", "T1", "P1", "h1", "u1" >>
      [] b = 2 -> << "v2", "T2", "P2", "s2", "h2", "u2" >>
      [] b = 3 -> << "v3", "T3", "P3", "s3", "h3", "u3" >>
      [] b = 4 -> << "v4", "T4", "P4", "s4", "h4", "u4" >>

BlockOf(f) ==
    IF f \in StateFields(1) THEN 1 ELSE IF f \in StateFields(2) THEN 2
    ELSE IF f \in StateFields(3) THEN 3 ELSE IF f \in StateFields(4) THEN 4 ELSE 0

BlockAt(p) ==
    CASE p = "system" -> 0 [] p = "step_1" -> 1 [] p = "step_2" -> 2
      [] p = "step_3" -> 3 [] p = "step_4" -> 4 [] OTHER -> 5

Earlier(c, f) ==
    LET ord == SectionOrder(c, BlockOf(f))
    IN {ord[j] : j \in {j \in 1..Len(ord) : \E i \in 1..Len(ord) : ord[i] = f /\ j < i}}

\* What the block holds when it evaluates f, in a step from old to new: the fields
\* it evaluated before f have their new values.  T1 is held in a local only: it
\* is known there as soon as one of its candidates was applicable.
EvalView(c, f, old, new, cas) ==
    LET E == Earlier(c, f)
        localT1 == IF known(old["T1"]) THEN old["T1"]
                   ELSE FirstApplicable(c, "T1", [old EXCEPT !["v1"] = new["v1"]], cas)
    IN [g \in DOMAIN old |->
          IF g \in E THEN (IF g = "T1" THEN localT1 ELSE new[g]) ELSE old[g]]

\* The fields this step moved from unknown to known.
Committed == {f \in DOMAIN variables : unknown(variables[f]) /\ known(variables'[f])}

InBlock == pc \in {"system", "step_1", "step_2", "step_3", "step_4"}

\* The view of the running block when it evaluates f in the current step.
View(f) == EvalView(cycle, f, variables, variables', cold_air_standard)

\* The fields unknown when the current pass began: still unknown, or committed in it.
UnknownBeforePass ==
    Cardinality({f \in DOMAIN variables :
                    unknown(variables[f]) \/ stamp[f][1] = counter})

\* The seeding formulas: the value and the inputs read.
SeedOperands(tag) ==
    CASE tag = "gamma=apdx4(T1)" -> {"T1"}
      [] tag = "cv=apdx4(T1)" -> {"T1"}
      [] tag = "cp=apdx4(T1)" -> {"T1"}
      [] tag = "gamma=apdx1" -> {}
      [] tag = "R=apdx1" -> {}

SeedTags(f) ==
    CASE f = "gamma" -> {"gamma=apdx4(T1)", "gamma=apdx1"}
      [] f = "R" -> {"R=apdx1"}
      [] f = "cv" -> {"cv=apdx4(T1)"}
      [] f = "cp" -> {"cp=apdx4(T1)"}
      [] OTHER -> {}

HasFormula(c, f, tag) ==
    tag \in SeedTags(f) \/ \E i \in 1..Len(RuleList(c, f)) : RuleList(c, f)[i].tag = tag

\* The inputs read by the formula that produced tag for field f.
OperandsOf(c, f, tag) ==
    IF tag \in SeedTags(f) THEN SeedOperands(tag)
    ELSE LET L == RuleList(c, f)
         IN L[CHOOSE i \in 1..Len(L) : L[i].tag = tag].needs

Max(a, b) == IF a >= b THEN a ELSE b

-----------------------------------------------------------------------------
(* C1: every solve terminates; the pass loop exits exactly after the first
   pass whose unknown count is zero or not lower than the count before that
   pass, and only from the loop test; an exit with residual unknowns leaves
   the count equal to the count before the final pass. *)
C1_ExitStep ==
    /\ pc = "test" =>
          LET cur == count_nans(variables)
              before == UnknownBeforePass
          IN /\ pc' \in {"done", "system"}
             /\ (pc' = "done") <=> (cur = 0 \/ cur >= before)
             /\ (pc' = "done" /\ cur > 0) => cur = before
    /\ pc' = "done" => pc = "test"

C1_Terminates == [][C1_ExitStep]_vars /\ <>(pc = "done")

C1_Witness == pc = "done" /\ counter >= 2 /\ count_nans(variables) > 0

(* C2: a known field is never written again: caller-supplied values and
   values committed earlier are unchanged by every step, and the unknown
   count never increases. *)
C2_Step ==
    /\ DOMAIN variables' = DOMAIN variables
    /\ \A f \in DOMAIN variables :
          /\ known(variables[f]) => variables'[f] = variables[f]
          /\ known(init[f]) => variables'[f] = init[f]
    /\ count_nans(variables') <= count_nans(variables)

C2_WriteOnce == [][C2_Step]_vars

C2_Witness ==
    /\ pc = "done" /\ counter >= 2
    /\ \E f \in DOMAIN init : known(init[f])
    /\ \E g \in DOMAIN init :
          unknown(init[g]) /\ known(variables[g]) /\ stamp[g][1] = 1

(* C3: whenever a block commits a field, the committed value is that of the
   earliest candidate, in the field's listed order, that is legal in the
   mode and whose inputs were all known when the field was evaluated. *)
C3_FirstApplicableWins ==
    [][InBlock =>
         \A f \in Committed :
            variables'[f] = FirstApplicable(cycle, f, View(f), cold_air_standard)]_vars

(* C4: when a block runs, every unknown field of the block that has a legal
   candidate whose inputs are all known at that moment is known when the
   block returns (state 1's T included). *)
C4_BlockComplete ==
    [][InBlock =>
         \A f \in DOMAIN variables :
            ( /\ BlockOf(f) = BlockAt(pc)
              /\ unknown(variables[f])
              /\ SomeApplicable(cycle, f, variables, cold_air_standard) )
            => known(variables'[f])]_vars

(* C5 as claimed: the number of passes is at most the number of unknown
   fields of the state the caller passed in. *)
C5_PassBoundClaimed == counter <= count_nans(init)

(* C5 as amended: the number of passes is at most the number of unknown
   fields of the state the caller passed in, and one when that number is
   zero. *)
C5_PassBound == counter <= Max(1, count_nans(init))

C5_Witness == pc = "done" /\ count_nans(init) = 0 /\ counter = 1

(* C6: a solve never ends in an error state, whatever subset of fields is
   supplied; a field becomes known only through seeding (gamma, R, cv, cp)
   or in its own block while one of its candidates is applicable, so a field
   for which no formula became applicable is still unknown on return. *)
C6_Step ==
    /\ pc' # "error"
    /\ pc = "seed" => Committed \subseteq {"gamma", "R", "cv", "cp"}
    /\ pc = "test" => Committed = {}
    /\ InBlock =>
          \A f \in Committed :
             /\ BlockOf(f) = BlockAt(pc)
             /\ SomeApplicable(cycle, f, View(f), cold_air_standard)
    /\ pc' = "done" =>
          \A f \in DOMAIN variables :
             (unknown(init[f]) /\ SeedTags(f) = {} /\ RuleList(cycle, f) = << >>)
                => unknown(variables'[f])

C6_NormalReturn == [][C6_Step]_vars

C6_Witness ==
    /\ pc = "done"
    /\ \A f \in DOMAIN init : unknown(init[f])
    /\ count_nans(variables) > 0

(* C7: every value committed during a solve is the result of a formula of
   the field all of whose inputs were known when it was computed; no result
   of an unknown input is stored as known, the r formulas that read gamma
   untested included. *)
C7_Step ==
    \A f \in Committed :
       /\ HasFormula(cycle, f, variables'[f])
       /\ \A g \in OperandsOf(cycle, f, variables'[f]) : known(View(f)[g])

C7_NoUnknownInputs == [][C7_Step]_vars

C7_Witness ==
    /\ pc = "done"
    /\ unknown(init["gamma"])
    /\ variables["r"] = "r=(P2/P1)^(1/gamma)"

\* The fields a solve committed in a pass, with the pass and block of the commit.
Solved(f) == unknown(init[f]) /\ known(variables[f]) /\ stamp[f][1] >= 1

\* No committed value read an input committed later than itself: an input
\* from a later block was committed in a strictly earlier pass.
StampCausal ==
    \A f \in DOMAIN variables :
       Solved(f) =>
          \A g \in OperandsOf(cycle, f, variables[f]) :
             (g \in DOMAIN variables /\ Solved(g)) =>
                /\ stamp[g][1] <= stamp[f][1]
                /\ stamp[g][2] > stamp[f][2] => stamp[g][1] < stamp[f][1]

\* Candidate cand of the running block reads a value an earlier block
\* committed in this pass.
ReadsThisPass(cand) ==
    \E g \in cand.needs :
       /\ unknown(init[g])
       /\ stamp[g][1] = counter
       /\ stamp[g][2] < BlockAt(pc)

(* C8: each pass runs system_variables, step_1, step_2, step_3, step_4 in
   that order; a block commits only its own fields; a value committed by an
   earlier block of the pass is read as known by the later blocks of the
   same pass (a field whose candidate has all inputs known, one of them
   committed earlier in this pass, is known when its block returns); a value
   committed by a later block is read by an earlier block in the next pass
   at the earliest.  T1, which step_1 never stores, and the Otto P3
   candidate whose guard tests P3 itself are left to C4 and C35. *)
C8_Step ==
    /\ pc = "seed" => pc' \in {"system", "error"}
    /\ pc = "system" => pc' = "step_1"
    /\ pc = "step_1" => pc' = "step_2"
    /\ pc = "step_2" => pc' = "step_3"
    /\ pc = "step_3" => pc' = "step_4"
    /\ pc = "step_4" => pc' = "test"
    /\ pc = "test" => pc' \in {"system", "done"}
    /\ InBlock =>
          /\ \A f \in Committed : BlockOf(f) = BlockAt(pc)
          /\ \A f \in DOMAIN variables :
                ( /\ BlockOf(f) = BlockAt(pc)
                  /\ f # "T1"
                  /\ unknown(variables[f])
                  /\ \E i \in 1..Len(RuleList(cycle, f)) :
                        LET cand == RuleList(cycle, f)[i]
                        IN /\ cand.tag # "P3=P2*(T3/T2)"
                           /\ Applicable(cand, variables, cold_air_standard)
                           /\ ReadsThisPass(cand) )
                => known(variables'[f])
    /\ StampCausal'

C8_BlockOrder == [][C8_Step]_vars

C8_Witness ==
    /\ pc = "done"
    /\ \E f \in DOMAIN variables :
          /\ Solved(f)
          /\ \E g \in OperandsOf(cycle, f, variables[f]) :
                /\ g \in DOMAIN variables /\ Solved(g)
                /\ stamp[g][1] = stamp[f][1] /\ stamp[g][2] < stamp[f][2]
    /\ \E f \in DOMAIN variables :
          /\ Solved(f)
          /\ \E g \in OperandsOf(cycle, f, variables[f]) :
                /\ g \in DOMAIN variables /\ Solved(g)
                /\ stamp[g][2] > stamp[f][2] /\ stamp[g][1] + 1 = stamp[f][1]

(* C9: once seeding has run, gamma and R are known: a caller-supplied value
   is kept; otherwise gamma is the table value at T1 when T1 is known and
   the tabulated constant when it is not, and R is the tabulated constant. *)
C9_Seeded ==
    pc \notin {"seed", "error"} =>
       /\ known(variables["gamma"]) /\ known(variables["R"])
       /\ variables["gamma"] =
             IF known(init["gamma"]) THEN init["gamma"]
             ELSE IF known(init["T1"]) THEN "gamma=apdx4(T1)" ELSE "gamma=apdx1"
       /\ variables["R"] = IF known(init["R"]) THEN init["R"] ELSE "R=apdx1"

C9_Witness ==
    /\ pc = "system" /\ counter = 0
    /\ unknown(init["gamma"]) /\ unknown(init["T1"]) /\ unknown(init["R"])
    /\ variables["gamma"] = "gamma=apdx1" /\ variables["R"] = "R=apdx1"

(* C10: in cold-air-standard mode, once seeding has run, cv is known (a
   caller-supplied value kept, else the table value at T1), and for the
   Diesel cycle cp likewise. *)
C10_ColdSeeded ==
    (pc \notin {"seed", "error"} /\ cold_air_standard) =>
       /\ known(variables["cv"])
       /\ cycle = "diesel" => known(variables["cp"])

\* The aggregate formulas of the two families, by the text of the source.
TableDifference ==
    {"Qh=u3-u2", "Qc=u4-u1", "Wi=h2-h1", "Wo=h3-h4",
     "Qh=h3-h2", "Wi=u1-u2", "Wo=P2*(v3-v2)+(u3-u4)"}

SpecificHeatDifference ==
    {"Qh=cv*(T3-T2)", "Qc=cv*(T4-T1)", "Wi=cv*(T2-T1)", "Wo=cv*(T3-T4)",
     "Qh=cp*(T3-T2)"}

Aggregates == {"Qh", "Qc", "Wi", "Wo"}

(* C11: an aggregate Qh, Qc, Wi or Wo computed by a solve is never a
   tabulated enthalpy or internal-energy difference in cold-air-standard
   mode and never a specific-heat-times-temperature-difference in general
   mode, for both cycles. *)
C11_OneFamilyPerMode ==
    \A f \in Aggregates :
       unknown(init[f]) =>
          /\ cold_air_standard => variables[f] \notin TableDifference
          /\ ~cold_air_standard => variables[f] \notin SpecificHeatDifference

(* C12: in cold-air-standard mode, when the system block starts with the
   specific heats and T2, T3 known and Qh unknown it commits Qh by the
   specific-heat-times-temperature-difference formula, and likewise Qc from
   T1, T4; in the Diesel cycle as in the Otto cycle. *)
C12_Step ==
    (pc = "system" /\ cold_air_standard /\ known(variables["cv"])
       /\ (cycle = "diesel" => known(variables["cp"]))) =>
       /\ ( unknown(variables["Qh"]) /\ known(variables["T2"])
            /\ known(variables["T3"]) )
          => variables'["Qh"] \in SpecificHeatDifference
       /\ ( unknown(variables["Qc"]) /\ known(variables["T1"])
            /\ known(variables["T4"]) )
          => variables'["Qc"] \in SpecificHeatDifference

C12_ColdHeatLegs == [][C12_Step]_vars

\* Values of the aggregates as linear forms over the table values u_k, the
\* products R*T_k and cv*T_k: a function from the symbol to its coefficient.
Symbols ==
    {"u1", "u2", "u3", "u4", "RT1", "RT2", "RT3", "RT4",
     "cvT1", "cvT2", "cvT3", "cvT4"}

Sym(b) == [x \in Symbols |-> IF x = b THEN 1 ELSE 0]
Plus(a, b) == [x \in Symbols |-> a[x] + b[x]]
Minus(a, b) == [x \in Symbols |-> a[x] - b[x]]

\* The property table: h = u + R*T.
Enthalpy(k) ==
    CASE k = 1 -> Plus(Sym("u1"), Sym("RT1"))
      [] k = 2 -> Plus(Sym("u2"), Sym("RT2"))
      [] k = 3 -> Plus(Sym("u3"), Sym("RT3"))
      [] k = 4 -> Plus(Sym("u4"), Sym("RT4"))

\* The value each aggregate assignment of the source computes.  In the
\* Diesel Wo, P2*v2 = R*T2 and P2*v3 = P3*v3 = R*T3 (ideal gas, constant
\* pressure from 2 to 3).
AggregateValue(tag) ==
    CASE tag = "Qh=u3-u2" -> Minus(Sym("u3"), Sym("u2"))
      [] tag = "Qc=u4-u1" -> Minus(Sym("u4"), Sym("u1"))
      [] tag = "Wi=h2-h1" -> Minus(Enthalpy(2), Enthalpy(1))
      [] tag = "Wo=h3-h4" -> Minus(Enthalpy(3), Enthalpy(4))
      [] tag = "Qh=cv*(T3-T2)" -> Minus(Sym("cvT3"), Sym("cvT2"))
      [] tag = "Qc=cv*(T4-T1)" -> Minus(Sym("cvT4"), Sym("cvT1"))
      [] tag = "Wi=cv*(T2-T1)" -> Minus(Sym("cvT2"), Sym("cvT1"))
      [] tag = "Wo=cv*(T3-T4)" -> Minus(Sym("cvT3"), Sym("cvT4"))
      [] tag = "Qh=h3-h2" -> Minus(Enthalpy(3), Enthalpy(2))
      [] tag = "Wi=u1-u2" -> Minus(Sym("u1"), Sym("u2"))
      [] tag = "Wo=P2*(v3-v2)+(u3-u4)" ->
            Plus(Minus(Sym("RT3"), Sym("RT2")), Minus(Sym("u3"), Sym("u4")))

\* The value of W and the ratio n in state s, by the assignment that made them.
WorkValue(s) ==
    IF s["W"] = "W=Qh-Qc"
    THEN Minus(AggregateValue(s["Qh"]), AggregateValue(s["Qc"]))
    ELSE Minus(AggregateValue(s["Wo"]), AggregateValue(s["Wi"]))

AllDerived(F) == \A f \in F : unknown(init[f]) /\ known(variables[f])

(* C13: in a returned state whose Qh, Qc, Wi, Wo and W were all unknown on
   entry and are all known, W = Qh - Qc and W = Wo - Wi both hold for any
   table values with h = u + R*T, and n is W / Qh when the solve derived
   it. *)
C13_EnergyBalance ==
    (pc = "done" /\ AllDerived({"Qh", "Qc", "Wi", "Wo", "W"})) =>
       /\ WorkValue(variables)
             = Minus(AggregateValue(variables["Qh"]), AggregateValue(variables["Qc"]))
       /\ WorkValue(variables)
             = Minus(AggregateValue(variables["Wo"]), AggregateValue(variables["Wi"]))
       /\ AllDerived({"n"}) => variables["n"] = "n=W/Qh"

\* The caller supplied exactly the fields of S.
KnownOnEntry(S) == \A f \in DOMAIN init : known(init[f]) <=> f \in S

(* C14: an Otto solve entered with exactly gamma, R, r, T1 and P1 known
   returns with T2 = T1*r^(gamma-1) and P2 = P1*r^gamma, both committed by
   step_2 of the first pass, in either mode. *)
C14_OttoCompression ==
    (cycle = "otto" /\ pc = "done" /\ KnownOnEntry({"gamma", "R", "r", "T1", "P1"})) =>
       /\ variables["T2"] = "T2=T1*r^(gamma-1)" /\ stamp["T2"] = <<1, 2>>
       /\ variables["P2"] = "P2=P1*r^gamma" /\ stamp["P2"] = <<1, 2>>

C14_Witness ==
    /\ cycle = "otto" /\ pc = "done" /\ cold_air_standard
    /\ KnownOnEntry({"gamma", "R", "r", "T1", "P1"})
    /\ known(variables["T2"]) /\ known(variables["P2"])

(* C15: a Diesel solve in cold-air-standard mode entered with exactly r,
   rc, gamma and T1 known returns with T2 = T1*r^(gamma-1) and T3 = T2*rc. *)
C15_DieselConsistency ==
    ( cycle = "diesel" /\ cold_air_standard /\ pc = "done"
      /\ KnownOnEntry({"r", "rc", "gamma", "T1"}) ) =>
       /\ variables["T2"] = "T2=T1*r^(gamma-1)"
       /\ variables["T3"] = "T3=T2*rc"

C15_Witness ==
    /\ cycle = "diesel" /\ cold_air_standard /\ pc = "done"
    /\ KnownOnEntry({"r", "rc", "gamma", "T1"})
    /\ known(variables["T3"])

(* C16: a solve entered with no unknown field changes no field, at any step
   and in the returned state, for either cycle and mode. *)
C16_Idempotent == count_nans(init) = 0 => variables = init

C16_Witness ==
    /\ pc = "done" /\ counter = 1 /\ cold_air_standard
    /\ count_nans(init) = 0 /\ variables = init

(***************************************************************************)
(* The one-dimensional table lookups of src/thermo/apdx_functions.py and   *)
(* of the older src/apdx_functions.py.  A table is the sequence of its     *)
(* rows in stored order; numbers are exact fractions <<n, d>>; a Python    *)
(* argument is a float or a list; a numpy value carries its ndim.          *)
(***************************************************************************)
MaxRows == 3
MaxInputs == 2

AxisValues == 1..(MaxRows + 1)
InputValues == 0..(MaxRows + 2)

\* Two target columns: one rising and one falling with the axis, neither linear.
TargetColumns ==
    { [a \in AxisValues |-> a * a + 1],
      [a \in AxisValues |-> 40 - a * a] }

RECURSIVE GCD(_, _)
GCD(a, b) == IF b = 0 THEN a ELSE GCD(b, a % b)

Abs(a) == IF a < 0 THEN 0 - a ELSE a

\* The fraction n/d in lowest terms with a positive denominator.
Rat(n, d) ==
    LET g == GCD(Abs(n), Abs(d))
        s == IF d < 0 THEN 0 - 1 ELSE 1
    IN <<(s * n) \div g, (s * d) \div g>>

\* A float argument holds its number as v[1], a list its elements.
PyFloat(x) == [type |-> "float", v |-> <<x>>]
PyList(xs) == [type |-> "list", v |-> xs]

Tables ==
    UNION { { [i \in 1..k |-> [axis |-> ax[i], target |-> col[ax[i]]]] :
                ax \in {q \in [1..k -> AxisValues] :
                           \A i, j \in 1..k : i # j => q[i] # q[j]},
                col \in TargetColumns } : k \in 1..MaxRows }

Inputs ==
    {PyFloat(x) : x \in InputValues}
       \cup UNION { {PyList(xs) : xs \in [1..n -> InputValues]} : n \in 1..MaxInputs }

xp(rows) == [i \in 1..Len(rows) |-> rows[i].axis]
fp(rows) == [i \in 1..Len(rows) |-> rows[i].target]

\* numpy's search of the sample points for tables of at most four rows: the
\* index (from 0) of the interval of key, -1 below xp[0], len above xp[-1].
RECURSIVE linear_search(_, _, _)
linear_search(key, arr, i) ==
    IF i < Len(arr) /\ key >= arr[i + 1] THEN linear_search(key, arr, i + 1) ELSE i

binary_search_with_guess(key, arr) ==
    IF key > arr[Len(arr)] THEN Len(arr)
    ELSE IF key < arr[1] THEN 0 - 1
    ELSE linear_search(key, arr, 1) - 1

\* np.interp at one point: no test that the sample points ascend.
interp_point(x, dx, dy) ==
    LET len == Len(dx)
        j == binary_search_with_guess(x, dx)
    IN IF j = 0 - 1 THEN Rat(dy[1], 1)
       ELSE IF j = len THEN Rat(dy[len], 1)
       ELSE IF j = len - 1 THEN Rat(dy[j + 1], 1)
       ELSE IF dx[j + 1] = x THEN Rat(dy[j + 1], 1)
       ELSE Rat((dy[j + 2] - dy[j + 1]) * (x - dx[j + 1])
                   + dy[j + 1] * (dx[j + 2] - dx[j + 1]),
                dx[j + 2] - dx[j + 1])

\* np.array([input]) and the conversion np.interp applies to a bare argument.
np_array(input) ==
    IF input.type = "float" THEN [ndim |-> 1, v |-> input.v]
    ELSE [ndim |-> 2, v |-> <<input.v>>]

np_asarray(input) ==
    IF input.type = "float" THEN [ndim |-> 0, v |-> input.v[1]]
    ELSE [ndim |-> 1, v |-> input.v]

\* np.interp: the result has the shape of x.
np_interp(x, dx, dy) ==
    CASE x.ndim = 0 -> [ndim |-> 0, v |-> interp_point(x.v, dx, dy)]
      [] x.ndim = 1 ->
            [ndim |-> 1, v |-> [i \in 1..Len(x.v) |-> interp_point(x.v[i], dx, dy)]]
      [] x.ndim = 2 ->
            [ndim |-> 2,
             v |-> [r \in 1..Len(x.v) |->
                      [i \in 1..Len(x.v[r]) |-> interp_point(x.v[r][i], dx, dy)]]]

\* output_value[0]
first_item(a) == [ndim |-> a.ndim - 1, v |-> a.v[1]]

\* return output_value[0] if np.ndim(output_value)==1 else output_value
first_if_1d(a) == IF a.ndim = 1 THEN first_item(a) ELSE a

\* if type(input) != list or type(input) != np.ndarray: input = np.array([input])
wrap_unless_list_and_ndarray(input) ==
    IF input.type # "list" \/ input.type # "ndarray"
    THEN np_array(input) ELSE np_asarray(input)

\* if type(input) == float or type(input) == int: input = np.array([input])
wrap_if_number(input) ==
    IF input.type = "float" \/ input.type = "int"
    THEN np_array(input) ELSE np_asarray(input)

apdx_4_lookup(rows, input) ==
    first_if_1d(np_interp(wrap_unless_list_and_ndarray(input), xp(rows), fp(rows)))

apdx_7_lookup(rows, input) ==
    first_if_1d(np_interp(wrap_unless_list_and_ndarray(input), xp(rows), fp(rows)))

apdx_8ab_lookup(rows, input) ==
    first_if_1d(np_interp(wrap_if_number(input), xp(rows), fp(rows)))

apdx_9ab_lookup(rows, input) ==
    first_if_1d(np_interp(wrap_if_number(input), xp(rows), fp(rows)))

legacy_apdx_7_lookup(rows, input) ==
    np_interp(wrap_unless_list_and_ndarray(input), xp(rows), fp(rows))

legacy_apdx_8_lookup(rows, input) ==
    np_interp(wrap_if_number(input), xp(rows), fp(rows))

legacy_apdx_9_lookup(rows, input) ==
    np_interp(wrap_if_number(input), xp(rows), fp(rows))

\* One lookup call: a stored table, an argument, then the call.
LookupInit ==
    /\ cycle = "otto"
    /\ cold_air_standard = FALSE
    /\ variables = define_empty_variables("otto")
    /\ pc = "idle"
    /\ counter = 0
    /\ previous_nan_count = 0
    /\ init = variables
    /\ stamp = [f \in Fields("otto") |-> <<0, 0>>]
    /\ data \in Tables
    /\ arg \in Inputs
    /\ output = NoCall

Returns(func, value) ==
    /\ output.func = "none"
    /\ output' = [func |-> func, value |-> value]
    /\ UNCHANGED <<solverVars, data, arg>>

GetApdx4 == Returns("get_apdx_4", apdx_4_lookup(data, arg))
GetApdx7 == Returns("get_apdx_7", apdx_7_lookup(data, arg))
GetApdx8ab == Returns("get_apdx_8ab", apdx_8ab_lookup(data, arg))
GetApdx9ab == Returns("get_apdx_9ab", apdx_9ab_lookup(data, arg))
LegacyGetApdx7 == Returns("legacy get_apdx_7", legacy_apdx_7_lookup(data, arg))
LegacyGetApdx8 == Returns("legacy get_apdx_8", legacy_apdx_8_lookup(data, arg))
LegacyGetApdx9 == Returns("legacy get_apdx_9", legacy_apdx_9_lookup(data, arg))

LookupNext ==
    GetApdx4 \/ GetApdx7 \/ GetApdx8ab \/ GetApdx9ab
       \/ LegacyGetApdx7 \/ LegacyGetApdx8 \/ LegacyGetApdx9

LookupSpec == LookupInit /\ [][LookupNext]_vars

\* lookup1D as specified: the rows sorted ascending by the axis, linear
\* between neighbouring rows, the boundary target outside the tabulated range.
lookup1D(rows, x) ==
    LET S == {rows[i] : i \in DOMAIN rows}
        below == {r \in S : r.axis <= x}
        above == {r \in S : r.axis >= x}
        lo == CHOOSE r \in below : \A q \in below : q.axis <= r.axis
        hi == CHOOSE r \in above : \A q \in above : q.axis >= r.axis
    IN IF below = {} THEN Rat(hi.target, 1)
       ELSE IF above = {} THEN Rat(lo.target, 1)
       ELSE IF lo.axis = hi.axis THEN Rat(lo.target, 1)
       ELSE Rat(lo.target * (hi.axis - x) + hi.target * (x - lo.axis),
                hi.axis - lo.axis)

PackageLookups == {"get_apdx_4", "get_apdx_7", "get_apdx_8ab", "get_apdx_9ab"}

\* The elements of a returned value, one level of nesting removed.
Flat(a) ==
    CASE a.ndim = 0 -> <<a.v>>
      [] a.ndim = 1 -> a.v
      [] a.ndim = 2 -> a.v[1]

\* A lookup has returned for a float argument; its first returned number.
ScalarCall == output.func # "none" /\ arg.type = "float"
Returned == Flat(output.value)[1]

AxisOf(rows) == {rows[i].axis : i \in DOMAIN rows}
RowAt(rows, a) == CHOOSE r \in {rows[i] : i \in DOMAIN rows} : r.axis = a
Least(S) == CHOOSE a \in S : \A b \in S : a <= b
Greatest(S) == CHOOSE a \in S : \A b \in S : a >= b

(* C17: the result of a lookup does not depend on the stored order of the
   rows: for every table and input it is the piecewise-linear interpolation
   over the rows sorted ascending by the axis. *)
C17_OrderIndependent ==
    (ScalarCall /\ output.func \in PackageLookups) =>
       Returned = lookup1D(data, arg.v[1])

(* C18: an input below the smallest tabulated axis value returns the target
   of the row with the smallest axis value, an input above the largest the
   target of the row with the largest. *)
C18_Clamped ==
    ScalarCall =>
       /\ arg.v[1] < Least(AxisOf(data)) =>
             Returned = Rat(RowAt(data, Least(AxisOf(data))).target, 1)
       /\ arg.v[1] > Greatest(AxisOf(data)) =>
             Returned = Rat(RowAt(data, Greatest(AxisOf(data))).target, 1)

(* C19: an input equal to the axis value of a tabulated row returns that
   row's target, for every row of the table. *)
C19_ExactPoint ==
    (ScalarCall /\ arg.v[1] \in AxisOf(data)) =>
       Returned = Rat(RowAt(data, arg.v[1]).target, 1)

(* C20: a lookup returns a scalar for a scalar input and, for a sequence of
   n inputs, a flat sequence of the n interpolated values in input order;
   for the four package lookups and the three older ones. *)
C20_SameShape ==
    output.func # "none" =>
       /\ arg.type = "float" => output.value.ndim = 0
       /\ arg.type = "list" =>
             /\ output.value.ndim = 1
             /\ Len(output.value.v) = Len(arg.v)
             /\ \A i \in 1..Len(arg.v) :
                   output.value.v[i] = interp_point(arg.v[i], xp(data), fp(data))

(***************************************************************************)
(* The two-dimensional lookups get_apdx_8c and get_apdx_9c of              *)
(* src/thermo/apdx_functions.py.  A table is the sequence of its cleaned   *)
(* rows in stored order, each with the two axis values and the target; an  *)
(* argument is the pair <<input[0], input[1]>>.  Tabulated axis values are *)
(* even, so that an odd input is between tabulated values.                 *)
(***************************************************************************)
Axis0Values == {2 * i : i \in 1..MaxInputs}
Axis1Values == {2 * i : i \in 1..MaxRows}

GridPoints == Axis0Values \X Axis1Values

\* The target column: not linear in either axis.
GridTarget(p) == p[1] * p[1] + p[2] * p[2]

GridTables ==
    UNION { { [i \in 1..k |-> [a0 |-> q[i][1], a1 |-> q[i][2], target |-> GridTarget(q[i])]] :
                q \in {q \in [1..k -> GridPoints] :
                          \A i, j \in 1..k : i # j => q[i] # q[j]} } : k \in 1..MaxRows }

GridInputs == (1..(2 * MaxInputs + 1)) \X (1..(2 * MaxRows + 1))

\* clean_data[relative_to[0]].unique() and clean_data[relative_to[1]].unique()
unique_values_0(rows) == {rows[i].a0 : i \in DOMAIN rows}
unique_values_1(rows) == {rows[i].a1 : i \in DOMAIN rows}

\* clean_data[clean_data[relative_to[0]] == input[0]]: the matching rows in
\* stored order, as rows of a one-dimensional table over the other axis.
RECURSIVE filtered_by_0(_, _)
filtered_by_0(rows, v0) ==
    IF rows = << >> THEN << >>
    ELSE LET rest == filtered_by_0(Tail(rows), v0)
         IN IF Head(rows).a0 = v0
            THEN <<[axis |-> Head(rows).a1, target |-> Head(rows).target]>> \o rest
            ELSE rest

RECURSIVE filtered_by_1(_, _)
filtered_by_1(rows, v1) ==
    IF rows = << >> THEN << >>
    ELSE LET rest == filtered_by_1(Tail(rows), v1)
         IN IF Head(rows).a1 = v1
            THEN <<[axis |-> Head(rows).a0, target |-> Head(rows).target]>> \o rest
            ELSE rest

\* Twice the signed area of the triangle a, b, c.
orient(a, b, c) == (b[1] - a[1]) * (c[2] - a[2]) - (b[2] - a[2]) * (c[1] - a[1])

Sign(n) == IF n > 0 THEN 1 ELSE IF n < 0 THEN 0 - 1 ELSE 0

\* d is strictly inside the circle through a, b, c (not collinear).
in_circle(a, b, c, d) ==
    LET ax == a[1] - d[1]  ay == a[2] - d[2]
        bx == b[1] - d[1]  by == b[2] - d[2]
        cx == c[1] - d[1]  cy == c[2] - d[2]
        det == (ax * ax + ay * ay) * (bx * cy - by * cx)
                 - (bx * bx + by * by) * (ax * cy - ay * cx)
                 + (cx * cx + cy * cy) * (ax * by - ay * bx)
    IN det * Sign(orient(a, b, c)) > 0

PointOf(r) == <<r.a0, r.a1>>

\* q is in the closed triangle of the rows of t (not collinear).
in_simplex(t, q) ==
    LET a == PointOf(t[1])  b == PointOf(t[2])  c == PointOf(t[3])
        s == Sign(orient(a, b, c))
    IN /\ s * orient(q, b, c) >= 0
       /\ s * orient(a, q, c) >= 0
       /\ s * orient(a, b, q) >= 0

\* The triangles of a Delaunay triangulation of the rows: no row strictly
\* inside the circle through the corners.  Rows on one circle admit more
\* than one triangulation.
Simplices(rows) ==
    LET S == {rows[i] : i \in DOMAIN rows}
    IN { t \in S \X S \X S :
           /\ orient(PointOf(t[1]), PointOf(t[2]), PointOf(t[3])) > 0
           /\ \A r \in S :
                 ~in_circle(PointOf(t[1]), PointOf(t[2]), PointOf(t[3]), PointOf(r)) }

\* LinearNDInterpolator on one triangle: the barycentric blend of the
\* corner targets.
barycentric(t, q) ==
    LET a == PointOf(t[1])  b == PointOf(t[2])  c == PointOf(t[3])
    IN Rat(orient(q, b, c) * t[1].target + orient(a, q, c) * t[2].target
              + orient(a, b, q) * t[3].target,
           orient(a, b, c))

\* The outcomes of one lookup: which return statement was reached, whether
\* a number, a NaN or an exception came out, and the number.
Outcome(branch, kind, v) == [branch |-> branch, kind |-> kind, v |-> v]

\* griddata(points, values, (input[0], input[1]), method='linear'): Qhull
\* refuses rows that span no triangle; a point in no triangle gets the fill
\* value NaN.
griddata(rows, q) ==
    LET T == Simplices(rows)
        hit == {t \in T : in_simplex(t, q)}
    IN IF T = {} THEN {Outcome("griddata", "QhullError", <<0, 1>>)}
       ELSE IF hit = {} THEN {Outcome("griddata", "nan", <<0, 1>>)}
       ELSE {Outcome("griddata", "number", barycentric(t, q)) : t \in hit}

apdx_8c_lookup(rows, input) ==
    IF input[1] \in unique_values_0(rows)
    THEN LET f == filtered_by_0(rows, input[1])
         IN {Outcome("first axis", "number", interp_point(input[2], xp(f), fp(f)))}
    ELSE IF input[2] \in unique_values_1(rows)
    THEN LET f == filtered_by_1(rows, input[2])
         IN {Outcome("second axis", "number", interp_point(input[1], xp(f), fp(f)))}
    ELSE griddata(rows, input)

apdx_9c_lookup(rows, input) ==
    IF input[1] \in unique_values_0(rows)
    THEN LET f == filtered_by_0(rows, input[1])
         IN {Outcome("first axis", "number", interp_point(input[2], xp(f), fp(f)))}
    ELSE IF input[2] \in unique_values_1(rows)
    THEN LET f == filtered_by_1(rows, input[2])
         IN {Outcome("second axis", "number", interp_point(input[1], xp(f), fp(f)))}
    ELSE griddata(rows, input)

NoGridCall == [func |-> "none", branch |-> "none", kind |-> "none", v |-> <<0, 1>>]

\* One two-dimensional lookup call: a stored table, a query point, the call.
GridInit ==
    /\ cycle = "otto"
    /\ cold_air_standard = FALSE
    /\ variables = define_empty_variables("otto")
    /\ pc = "idle"
    /\ counter = 0
    /\ previous_nan_count = 0
    /\ init = variables
    /\ stamp = [f \in Fields("otto") |-> <<0, 0>>]
    /\ data \in GridTables
    /\ arg \in GridInputs
    /\ output = NoGridCall

GridReturns(func, outcomes) ==
    /\ output.func = "none"
    /\ \E o \in outcomes :
          output' = [func |-> func, branch |-> o.branch, kind |-> o.kind, v |-> o.v]
    /\ UNCHANGED <<solverVars, data, arg>>

GetApdx8c == GridReturns("get_apdx_8c", apdx_8c_lookup(data, arg))
GetApdx9c == GridReturns("get_apdx_9c", apdx_9c_lookup(data, arg))

GridNext == GetApdx8c \/ GetApdx9c

GridSpec == GridInit /\ [][GridNext]_vars

(* C21: a two-dimensional lookup whose first coordinate is a tabulated
   first-axis value returns the one-dimensional linear interpolation of the
   target over the second axis on the rows with that first-axis value; when
   only the second coordinate is tabulated, the same over the first axis;
   scattered interpolation is used only when neither is tabulated. *)
C21_Reduction ==
    output.func # "none" =>
       LET in0 == arg[1] \in unique_values_0(data)
           in1 == arg[2] \in unique_values_1(data)
       IN /\ in0 => /\ output.kind = "number"
                    /\ output.v = lookup1D(filtered_by_0(data, arg[1]), arg[2])
          /\ (~in0 /\ in1) =>
                /\ output.kind = "number"
                /\ output.v = lookup1D(filtered_by_1(data, arg[2]), arg[1])
          /\ output.branch = "griddata" <=> (~in0 /\ ~in1)

\* q is on the segment from a to b.
on_segment(a, b, q) ==
    /\ orient(a, b, q) = 0
    /\ (q[1] - a[1]) * (q[1] - b[1]) <= 0
    /\ (q[2] - a[2]) * (q[2] - b[2]) <= 0

\* q is in the convex hull of the tabulated (axis0, axis1) pairs.
InHull(rows, q) ==
    LET S == {rows[i] : i \in DOMAIN rows}
    IN \/ \E a, b \in S : on_segment(PointOf(a), PointOf(b), q)
       \/ \E t \in S \X S \X S :
             /\ orient(PointOf(t[1]), PointOf(t[2]), PointOf(t[3])) > 0
             /\ in_simplex(t, q)

(* C22: a two-dimensional lookup at a point outside the convex hull of the
   tabulated pairs ends in an OutOfRangeLookup failure: it returns no number
   and no NaN. *)
C22_OutOfRange ==
    (output.func # "none" /\ ~InHull(data, arg)) => output.kind = "OutOfRangeLookup"

(***************************************************************************)
(* The two-phase functions x_from_PT_and_var, vars_from_x_and_PT and       *)
(* vars_from_x_and_quality_var of src/thermo/apdx_functions.py, over       *)
(* saturation tables stored ascending in temperature.  Numbers are exact   *)
(* fractions; a numpy float is a number, an infinity or a NaN.             *)
(***************************************************************************)
Q(n) == <<n, 1>>
RAdd(a, b) == Rat(a[1] * b[2] + b[1] * a[2], a[2] * b[2])
RSub(a, b) == Rat(a[1] * b[2] - b[1] * a[2], a[2] * b[2])
RMul(a, b) == Rat(a[1] * b[1], a[2] * b[2])
RDiv(a, b) == Rat(a[1] * b[2], a[2] * b[1])
RLess(a, b) == a[1] * b[2] < b[1] * a[2]

Number(r) == [fl |-> "number", v |-> r]
NoFloat == [fl |-> "none", v |-> <<0, 1>>]

\* numpy float64 division: a zero divisor gives an infinity or a NaN with a
\* warning, never an exception.
true_divide(a, b) ==
    IF b[1] # 0 THEN Number(RDiv(a, b))
    ELSE IF a[1] > 0 THEN [fl |-> "inf", v |-> <<0, 1>>]
    ELSE IF a[1] < 0 THEN [fl |-> "-inf", v |-> <<0, 1>>]
    ELSE [fl |-> "nan", v |-> <<0, 1>>]

StateKeys == {"T", "P", "v", "h", "s", "u"}

Columns == {"Tsat", "P", "vf", "vg", "uf", "ug", "hf", "hg", "sf", "sg"}

\* The temperature above which a fluid has no liquid and vapor: the water
\* table ends there, the R134a table ends below it.
Critical(apdx) == IF apdx = 8 THEN MaxRows + 1 ELSE MaxRows + 2

\* One row of a saturation table of a fluid at temperature t: the pressure
\* rises with t, the liquid and vapor columns meet at the critical
\* temperature.
SatRow(apdx, t) ==
    LET gap == Critical(apdx) - t
    IN [c \in Columns |->
          CASE c = "Tsat" -> t
            [] c = "P" -> 2 * t - 1 + (apdx - 8)
            [] c = "vf" -> t
            [] c = "vg" -> t + 2 * gap
            [] c = "hf" -> 2 * t
            [] c = "hg" -> 2 * t + 3 * gap
            [] c = "sf" -> t + 1
            [] c = "sg" -> t + 1 + 3 * gap
            [] c = "uf" -> 3 * t
            [] c = "ug" -> 3 * t + 4 * gap]

\* The temperatures of the stored rows, ascending.
SatTemperatures ==
    UNION { {q \in [1..k -> AxisValues] : \A i \in 1..(k - 1) : q[i] < q[i + 1]} :
              k \in 2..MaxRows }

SatTables ==
    { [apdx \in {8, 9} |-> [i \in DOMAIN ts |-> SatRow(apdx, ts[i])]] :
         ts \in SatTemperatures }

\* np.interp at one point given as a fraction.
RECURSIVE sat_search(_, _, _)
sat_search(key, arr, i) ==
    IF i < Len(arr) /\ ~RLess(key, Q(arr[i + 1])) THEN sat_search(key, arr, i + 1) ELSE i

sat_interp(x, dx, dy) ==
    LET len == Len(dx)
        j == IF RLess(Q(dx[len]), x) THEN len
             ELSE IF RLess(x, Q(dx[1])) THEN 0 - 1
             ELSE sat_search(x, dx, 1) - 1
    IN IF j = 0 - 1 THEN Q(dy[1])
       ELSE IF j = len THEN Q(dy[len])
       ELSE IF j = len - 1 THEN Q(dy[j + 1])
       ELSE IF Q(dx[j + 1]) = x THEN Q(dy[j + 1])
       ELSE RAdd(RMul(Rat(dy[j + 2] - dy[j + 1], dx[j + 2] - dx[j + 1]),
                      RSub(x, Q(dx[j + 1]))),
                 Q(dy[j + 1]))

\* if relative_to == 'T': relative_to = 'Tsat' (and the same for request)
column_name(c) == IF c = "T" THEN "Tsat" ELSE c

\* What a call does: return a value or raise.
Raises(kind) == [kind |-> kind, v |-> <<0, 1>>]
Value(r) == [kind |-> "return", v |-> r]

\* get_apdx_8ab(table_base, relative_to, input, request) for a number.
sat_lookup(rows, table_base, relative_to, input, request) ==
    IF table_base \notin {"Pressure", "Temperature"} THEN Raises("ValueError")
    ELSE IF column_name(relative_to) \notin Columns \/ column_name(request) \notin Columns
    THEN Raises("KeyError")
    ELSE Value(sat_interp(input,
                          [i \in DOMAIN rows |-> rows[i][column_name(relative_to)]],
                          [i \in DOMAIN rows |-> rows[i][column_name(request)]]))

get_apdx_8ab(tables, table_base, relative_to, input, request) ==
    sat_lookup(tables[8], table_base, relative_to, input, request)

get_apdx_9ab(tables, table_base, relative_to, input, request) ==
    sat_lookup(tables[9], table_base, relative_to, input, request)

\* apdx_func = get_apdx_8ab if apdx == 8 else get_apdx_9ab
apdx_func(tables, apdx, table_base, relative_to, input, request) ==
    IF apdx = 8 THEN get_apdx_8ab(tables, table_base, relative_to, input, request)
    ELSE get_apdx_9ab(tables, table_base, relative_to, input, request)

\* The result of one call of a two-phase function.
Result(kind, search, x, state) == [kind |-> kind, search |-> search, x |-> x, state |-> state]
NoVars == [k \in StateKeys |-> NoFloat]
Failure(kind) == Result(kind, "none", NoFloat, NoVars)

x_from_PT_and_var(tables, apdx, pt_type, pt_value, known_var, known_var_value) ==
    IF pt_type \notin {"P", "T"} THEN Failure("ValueError")
    ELSE IF apdx \notin {8, 9} THEN Failure("ValueError")
    ELSE LET table_base == IF pt_type = "P" THEN "Pressure" ELSE "Temperature"
             var_f == apdx_func(tables, apdx, table_base, pt_type, pt_value, known_var \o "f")
             var_g == apdx_func(tables, apdx, table_base, pt_type, pt_value, known_var \o "g")
         IN IF var_f.kind # "return" THEN Failure(var_f.kind)
            ELSE IF var_g.kind # "return" THEN Failure(var_g.kind)
            ELSE Result("return", "none",
                        true_divide(RSub(known_var_value, var_f.v), RSub(var_g.v, var_f.v)),
                        NoVars)

\* The lever rule with the weights exchanged.
lever_swapped(x, var_f, var_g) == RAdd(RMul(x, var_f), RMul(RSub(Q(1), x), var_g))

\* (1 - x) * var_f + x * var_g
lever(x, var_f, var_g) == RAdd(RMul(RSub(Q(1), x), var_f), RMul(x, var_g))

vars_from_x_and_PT(tables, apdx, pt_type, pt_value, quality) ==
    IF pt_type \notin {"P", "T"} THEN Failure("UnboundLocalError")
    ELSE LET table_base == IF pt_type = "P" THEN "Pressure" ELSE "Temperature"
             other == IF pt_type = "P" THEN "T" ELSE "P"
             blend(var) ==
                lever(quality,
                      apdx_func(tables, apdx, table_base, pt_type, pt_value, var \o "f").v,
                      apdx_func(tables, apdx, table_base, pt_type, pt_value, var \o "g").v)
         IN Result("return", "none", NoFloat,
                   [k \in StateKeys |->
                      IF k = other
                      THEN Number(apdx_func(tables, apdx, table_base, pt_type, pt_value, other).v)
                      ELSE IF k \in {"v", "h", "s", "u"} THEN Number(blend(k))
                      ELSE NoFloat])

\* Root-finding bounds for T: the saturation range of the fluid's table.
T_min(apdx) == 1
T_max(apdx) == MaxRows + 1

\* interpolated - known_var_value at temperature T
objective(tables, apdx, x, known_var, known_var_value, T) ==
    RSub(lever(x,
               apdx_func(tables, apdx, "Temperature", "T", T, known_var \o "f").v,
               apdx_func(tables, apdx, "Temperature", "T", T, known_var \o "g").v),
         known_var_value)

\* root_scalar(objective, bracket=[a, b], method='brentq'): a zero of the
\* objective, which is linear between neighbouring tabulated temperatures.
brentq(tables, apdx, x, known_var, known_var_value, a, b) ==
    LET f(T) == objective(tables, apdx, x, known_var, known_var_value, T)
        knots == {t \in a..b : t \in {a, b} \/ \E i \in DOMAIN tables[apdx] :
                                                   tables[apdx][i]["Tsat"] = t}
        next(t) == CHOOSE u \in knots : u > t /\ \A w \in knots : w > t => u <= w
    IN {Q(t) : t \in {t \in knots : f(Q(t))[1] = 0}}
          \cup { RAdd(Q(t), RMul(Q(next(t) - t),
                                 RDiv(f(Q(t)), RSub(f(Q(t)), f(Q(next(t))))))) :
                   t \in {t \in knots : t < b /\ f(Q(t))[1] * f(Q(next(t)))[1] < 0} }

\* A record in which the known property is blended like the others.
quality_record_recomputed(tables, apdx, x, known_var, known_var_value, T_sat) ==
    [k \in StateKeys |->
       CASE k = "T" -> Number(T_sat)
         [] k = "P" -> Number(apdx_func(tables, apdx, "Temperature", "T", T_sat, "P").v)
         [] OTHER ->
               Number(lever(x,
                            apdx_func(tables, apdx, "Temperature", "T", T_sat, k \o "f").v,
                            apdx_func(tables, apdx, "Temperature", "T", T_sat, k \o "g").v))]

\* A bracket test that lets a zero at an end of the bracket through.
bracket_fails_strict(fa, fb) == RMul(fa, fb)[1] > 0

\* if objective(T_min) * objective(T_max) >= 0: raise ValueError
bracket_fails(fa, fb) == RMul(fa, fb)[1] >= 0

\* The record built from the resolved temperature.
quality_record(tables, apdx, x, known_var, known_var_value, T_sat) ==
    [k \in StateKeys |->
       CASE k = "T" -> Number(T_sat)
         [] k = "P" -> Number(apdx_func(tables, apdx, "Temperature", "T", T_sat, "P").v)
         [] k = known_var -> Number(known_var_value)
         [] OTHER ->
               Number(lever(x,
                            apdx_func(tables, apdx, "Temperature", "T", T_sat, k \o "f").v,
                            apdx_func(tables, apdx, "Temperature", "T", T_sat, k \o "g").v))]

\* The function with the direct lookup kept for the saturated liquid only.
vars_from_x_and_quality_var_liquid_only(tables, apdx, quality, known_var, known_var_value) ==
    IF known_var \notin {"v", "h", "s", "u"} THEN {Failure("AssertionError")}
    ELSE IF quality = Q(0)
    THEN LET T_sat == apdx_func(tables, apdx, "Temperature", known_var \o "f",
                                known_var_value, "T").v
         IN {Result("return", "direct", NoFloat,
                    quality_record(tables, apdx, quality, known_var, known_var_value, T_sat))}
    ELSE IF apdx \notin {8, 9} THEN {Failure("UnboundLocalError")}
    ELSE LET fa == objective(tables, apdx, quality, known_var, known_var_value, Q(T_min(apdx)))
             fb == objective(tables, apdx, quality, known_var, known_var_value, Q(T_max(apdx)))
         IN IF bracket_fails(fa, fb) THEN {Failure("ValueError")}
            ELSE { Result("return", "root_scalar", NoFloat,
                          quality_record(tables, apdx, quality, known_var,
                                         known_var_value, T_sat)) :
                     T_sat \in brentq(tables, apdx, quality, known_var, known_var_value,
                                      T_min(apdx), T_max(apdx)) }

\* The possible results: the root search may stop at any zero.
vars_from_x_and_quality_var(tables, apdx, quality, known_var, known_var_value) ==
    IF known_var \notin {"v", "h", "s", "u"} THEN {Failure("AssertionError")}
    ELSE IF quality = Q(0) \/ quality = Q(1)
    THEN LET T_sat == apdx_func(tables, apdx, "Temperature",
                                known_var \o (IF quality = Q(0) THEN "f" ELSE "g"),
                                known_var_value, "T").v
         IN {Result("return", "direct", NoFloat,
                    quality_record(tables, apdx, quality, known_var, known_var_value, T_sat))}
    ELSE IF apdx \notin {8, 9} THEN {Failure("UnboundLocalError")}
    ELSE LET fa == objective(tables, apdx, quality, known_var, known_var_value, Q(T_min(apdx)))
             fb == objective(tables, apdx, quality, known_var, known_var_value, Q(T_max(apdx)))
         IN IF bracket_fails(fa, fb) THEN {Failure("ValueError")}
            ELSE { Result("return", "root_scalar", NoFloat,
                          quality_record(tables, apdx, quality, known_var,
                                         known_var_value, T_sat)) :
                     T_sat \in brentq(tables, apdx, quality, known_var, known_var_value,
                                      T_min(apdx), T_max(apdx)) }

\* The arguments of one call.  An identifier is one the functions know or
\* one they do not: appendix 7, axis kind 'x', property 'T', table base
\* 'Volume'.
Qualities == {Q(0), <<1, 3>>, <<1, 2>>, Q(1)}
KnownValues == {Q(n) : n \in 0..(3 * MaxRows)}

QualityArgs ==
    [table_base : {"Temperature"}, apdx : {8, 9}, pt_type : {"P", "T"},
     pt_value : InputValues, quality : Qualities,
     known_var : {"v", "h", "s", "u"}, known_var_value : KnownValues]

UnknownIdentifierArgs ==
    { a \in [table_base : {"Pressure", "Temperature", "Volume"}, apdx : {7, 8, 9},
             pt_type : {"P", "T", "x"}, pt_value : {2}, quality : Qualities,
             known_var : {"v", "T"}, known_var_value : {Q(3)}] :
        \/ a.table_base = "Volume" \/ a.apdx = 7 \/ a.pt_type = "x" \/ a.known_var = "T" }

NoQualityCall == [func |-> "none", given |-> "none"] @@ Failure("none")

\* One call of a two-phase function: the stored tables, the arguments, the
\* call; then the quality of the state returned by vars_from_x_and_PT.
QualityInit ==
    /\ cycle = "otto"
    /\ cold_air_standard = FALSE
    /\ variables = define_empty_variables("otto")
    /\ pc = "idle"
    /\ counter = 0
    /\ previous_nan_count = 0
    /\ init = variables
    /\ stamp = [f \in Fields("otto") |-> <<0, 0>>]
    /\ data \in SatTables
    /\ arg \in QualityArgs \cup UnknownIdentifierArgs
    /\ output = NoQualityCall

QualityReturns(func, given, results) ==
    /\ \E r \in results : output' = [func |-> func, given |-> given] @@ r
    /\ UNCHANGED <<solverVars, data, arg>>

XFromPTAndVar ==
    /\ output.func = "none"
    /\ QualityReturns("x_from_PT_and_var", "caller",
                      {x_from_PT_and_var(data, arg.apdx, arg.pt_type, Q(arg.pt_value),
                                         arg.known_var, arg.known_var_value)})

VarsFromXAndPT ==
    /\ output.func = "none"
    /\ QualityReturns("vars_from_x_and_PT", "caller",
                      {vars_from_x_and_PT(data, arg.apdx, arg.pt_type, Q(arg.pt_value),
                                          arg.quality)})

VarsFromXAndQualityVar ==
    /\ output.func = "none"
    /\ QualityReturns("vars_from_x_and_quality_var", "caller",
                      vars_from_x_and_quality_var(data, arg.apdx, arg.quality,
                                                  arg.known_var, arg.known_var_value))

\* get_apdx_8ab / get_apdx_9ab called directly with a table base.
GetApdxBase ==
    /\ output.func = "none"
    /\ arg.apdx \in {8, 9}
    /\ LET r == apdx_func(data, arg.apdx, arg.table_base, arg.pt_type, Q(arg.pt_value),
                          arg.known_var \o "f")
       IN QualityReturns(IF arg.apdx = 8 THEN "get_apdx_8ab" ELSE "get_apdx_9ab", "caller",
                         {Result(r.kind, "none",
                                 IF r.kind = "return" THEN Number(r.v) ELSE NoFloat, NoVars)})

\* The value of known_var in the returned state passed back to
\* x_from_PT_and_var at the same axis value.
QualityOfState ==
    /\ output.func = "vars_from_x_and_PT"
    /\ output.kind = "return"
    /\ output.state[arg.known_var].fl = "number"
    /\ QualityReturns("x_from_PT_and_var", "state",
                      {x_from_PT_and_var(data, arg.apdx, arg.pt_type, Q(arg.pt_value),
                                         arg.known_var, output.state[arg.known_var].v)})

QualityNext ==
    XFromPTAndVar \/ VarsFromXAndPT \/ VarsFromXAndQualityVar \/ GetApdxBase
       \/ QualityOfState

QualitySpec == QualityInit /\ [][QualityNext]_vars

\* The call that has returned, and whether every identifier it was given is
\* one the functions know.
Called(func) == output.func = func
KnownIdentifiers == arg \in QualityArgs

\* The saturated values of a property at the supplied pressure or temperature.
SatBase == IF arg.pt_type = "P" THEN "Pressure" ELSE "Temperature"
SatF(var) == apdx_func(data, arg.apdx, SatBase, arg.pt_type, Q(arg.pt_value), var \o "f").v
SatG(var) == apdx_func(data, arg.apdx, SatBase, arg.pt_type, Q(arg.pt_value), var \o "g").v

(* C23: x_from_PT_and_var returns (knownValue - f) / (g - f) for the
   saturated values f and g of knownVar at the given pressure or
   temperature, and fails with an error when f equals g. *)
C23_Quality ==
    (Called("x_from_PT_and_var") /\ output.given = "caller" /\ KnownIdentifiers) =>
       LET f == SatF(arg.known_var)
           g == SatG(arg.known_var)
       IN /\ f # g => /\ output.kind = "return"
                      /\ output.x = Number(RDiv(RSub(arg.known_var_value, f), RSub(g, f)))
          /\ f = g => output.kind # "return"

(* C24: vars_from_x_and_PT returns a record holding both P and T, the
   supplied axis value and the looked-up other one, and v, h, s, u each
   blended by the lever rule from the saturated values at the supplied axis
   value. *)
C24_FullRecord ==
    (Called("vars_from_x_and_PT") /\ KnownIdentifiers) =>
       LET other == IF arg.pt_type = "P" THEN "T" ELSE "P"
       IN /\ output.kind = "return"
          /\ output.state[arg.pt_type] = Number(Q(arg.pt_value))
          /\ output.state[other]
                = Number(apdx_func(data, arg.apdx, SatBase, arg.pt_type,
                                   Q(arg.pt_value), other).v)
          /\ \A y \in {"v", "h", "s", "u"} :
                output.state[y] = Number(lever(arg.quality, SatF(y), SatG(y)))

\* 0 < x < 1
Interior(x) == RLess(Q(0), x) /\ RLess(x, Q(1))

\* f(T) = (1 - x) * var_f(T) + x * var_g(T) - knownValue at a bracket end.
BracketEnd(T) ==
    objective(data, arg.apdx, arg.quality, arg.known_var, arg.known_var_value, Q(T))

OppositeSigns(a, b) == (a[1] < 0 /\ b[1] > 0) \/ (a[1] > 0 /\ b[1] < 0)

(* C25: for 0 < x < 1, vars_from_x_and_quality_var fails with an error,
   returns no record and runs no root search whenever f(T_min) and f(T_max)
   do not have strictly opposite signs; it returns a root only when they
   do. *)
C25_Bracket ==
    (Called("vars_from_x_and_quality_var") /\ KnownIdentifiers /\ Interior(arg.quality)) =>
       LET opposite == OppositeSigns(BracketEnd(T_min(arg.apdx)), BracketEnd(T_max(arg.apdx)))
       IN /\ ~opposite => /\ output.kind # "return"
                          /\ output.search = "none"
                          /\ output.state = NoVars
          /\ output.kind = "return" => opposite /\ output.search = "root_scalar"

C25_Witness ==
    /\ Called("vars_from_x_and_quality_var") /\ KnownIdentifiers /\ Interior(arg.quality)
    /\ BracketEnd(T_min(arg.apdx))[1] > 0 /\ BracketEnd(T_max(arg.apdx))[1] > 0
    /\ output.kind = "ValueError"

(* C26: every record returned by vars_from_x_and_quality_var holds T, P, v,
   h, s and u; its entry for knownVar is the supplied knownValue, P is the
   saturation pressure at the resolved T, and every other property is the
   lever-rule blend at the resolved T. *)
C26_Record ==
    (Called("vars_from_x_and_quality_var") /\ output.kind = "return") =>
       LET T == output.state["T"].v
           at(c) == apdx_func(data, arg.apdx, "Temperature", "T", T, c).v
       IN /\ \A k \in StateKeys : output.state[k].fl = "number"
          /\ output.state[arg.known_var] = Number(arg.known_var_value)
          /\ output.state["P"] = Number(at("P"))
          /\ \A y \in {"v", "h", "s", "u"} \ {arg.known_var} :
                output.state[y] = Number(lever(arg.quality, at(y \o "f"), at(y \o "g")))

C26_Witness ==
    /\ Called("vars_from_x_and_quality_var") /\ output.kind = "return"
    /\ output.search = "root_scalar"
    /\ output.state["T"].v[2] # 1
    /\ output.state[arg.known_var] = Number(arg.known_var_value)

(* C27: for 0 < x < 1 and an axis value at which the saturated liquid and
   vapor values of a property differ, the state computed by
   vars_from_x_and_PT gives x back when its value of that property is passed
   to x_from_PT_and_var at the same axis value. *)
C27_RoundTrip ==
    ( Called("x_from_PT_and_var") /\ output.given = "state" /\ KnownIdentifiers
      /\ Interior(arg.quality) /\ SatF(arg.known_var) # SatG(arg.known_var) ) =>
       output.kind = "return" /\ output.x = Number(arg.quality)

C27_Witness ==
    /\ Called("x_from_PT_and_var") /\ output.given = "state" /\ KnownIdentifiers
    /\ arg.quality = <<1, 3>> /\ arg.pt_type = "P"
    /\ SatF(arg.known_var) # SatG(arg.known_var)
    /\ SatF(arg.known_var)[2] # 1
    /\ output.x = Number(<<1, 3>>)

(* C28: a table or quality operation given an identifier it does not know
   fails with an error and returns nothing: an appendix number other than 8
   or 9, a table base other than 'Pressure' or 'Temperature', an axis kind
   other than 'P' or 'T', a known variable outside v, h, s, u. *)
C28_UnknownIdentifier ==
    /\ ( Called("x_from_PT_and_var")
         /\ (arg.apdx \notin {8, 9} \/ arg.pt_type \notin {"P", "T"}
               \/ arg.known_var \notin {"v", "h", "s", "u"}) )
       => output.kind # "return"
    /\ ( Called("vars_from_x_and_PT")
         /\ (arg.apdx \notin {8, 9} \/ arg.pt_type \notin {"P", "T"}) )
       => output.kind # "return"
    /\ ( Called("vars_from_x_and_quality_var")
         /\ (arg.apdx \notin {8, 9} \/ arg.known_var \notin {"v", "h", "s", "u"}) )
       => output.kind # "return"
    /\ ( (Called("get_apdx_8ab") \/ Called("get_apdx_9ab"))
         /\ arg.table_base \notin {"Pressure", "Temperature"} )
       => output.kind # "return"

(***************************************************************************)
(* What a solve hands back, and the temperatures behind committed fields.  *)
(***************************************************************************)
\* return variables
solve_return(s) == [state |-> s]

(* C29: a solve returns both the state and the residual unknown count of
   that state, the count being the number of unknown fields of the returned
   state. *)
C29_ReturnsCount ==
    pc = "done" =>
       LET r == solve_return(variables)
       IN /\ DOMAIN r = {"state", "residualUnknownCount"}
          /\ r.residualUnknownCount = count_nans(r.state)

\* The field of state point i named by a letter: "T" and 2 give "T2".
PointField(letter, i) == letter \o ToString(i)

(* C30: at every step of a solve and in the returned state, for each state
   point i: when h_i, u_i or P_i was unknown on entry and is now known by a
   formula that reads T_i, T_i is known in the state. *)
C30_TemperatureHeld ==
    \A i \in 1..4 : \A letter \in {"h", "u", "P"} :
       LET f == PointField(letter, i)
           T == PointField("T", i)
       IN ( /\ unknown(init[f]) /\ known(variables[f])
            /\ HasFormula(cycle, f, variables[f])
            /\ T \in OperandsOf(cycle, f, variables[f]) )
          => known(variables[T])

(* C31: no step of a solve moves T1 or s1 from unknown to known, so a
   solve returns a state with no unknown field only when the caller supplied
   both T1 and s1; either cycle, either mode. *)
C31_State1Supplied ==
    /\ \A f \in {"T1", "s1"} : unknown(init[f]) => unknown(variables[f])
    /\ (pc = "done" /\ count_nans(variables) = 0) =>
          known(init["T1"]) /\ known(init["s1"])

C31_Witness ==
    /\ pc = "done" /\ counter >= 1
    /\ count_nans(init) > 0 /\ count_nans(variables) = 0
    /\ known(init["T1"]) /\ known(init["s1"])

\* The body of the while loop: system_variables, step_1 .. step_4.
pass(c, s, cas) ==
    Then(Then(Then(Then(system_variables(c, s, cas),
       LAMBDA v : step_1(c, v, cas)),
       LAMBDA v : step_2(c, v, cas)),
       LAMBDA v : step_3(c, v, cas)),
       LAMBDA v : step_4(c, v, cas))

\* The while loop from a state and the count before the pass.
RECURSIVE solve_loop(_, _, _, _)
solve_loop(c, s, cas, previous) ==
    LET after == pass(c, s, cas)
        current_nan_count == count_nans(after)
    IN IF LoopBreak(current_nan_count, previous) THEN after
       ELSE solve_loop(c, after, cas, current_nan_count)

\* solve_otto_cycle / solve_diesel_cycle as one call that returns.
solve_cycle(c, s, cas) ==
    LET seeded == seed(c, s, cas)
    IN solve_loop(c, seeded, cas, count_nans(seeded))

(* C32: the state a solve returns, solved or stalled, is a fixed point: one
   more pass in the same mode commits no field, and the same solve called
   again on it in the same mode changes no field. *)
C32_FixedPoint ==
    pc = "done" =>
       /\ pass(cycle, variables, cold_air_standard) = variables
       /\ solve_cycle(cycle, variables, cold_air_standard) = variables

C32_Witness ==
    /\ pc = "done" /\ counter >= 2
    /\ count_nans(variables) > 0
    /\ count_nans(variables) < count_nans(init)
    /\ pass(cycle, variables, cold_air_standard) = variables

\* The isentropic legs: compression 1 -> 2 and expansion 3 -> 4.
IsentropicLegs == {<<"s1", "s2">>, <<"s3", "s4">>}

\* Field b was unknown on entry and the returned state holds the copy of a.
CopiedFrom(a, b) ==
    (known(init[a]) /\ unknown(init[b])) => variables[b] = b \o "=" \o a

(* C33: on each isentropic leg of both cycles, when exactly one endpoint's
   entropy is known on entry the solve returns with the other endpoint's
   entropy known and equal to it, in both directions of the leg. *)
C33_EntropyCopied ==
    pc = "done" =>
       \A leg \in IsentropicLegs :
          CopiedFrom(leg[1], leg[2]) /\ CopiedFrom(leg[2], leg[1])

\* The table-lookup inversions of a temperature field, from u and from h.
FromU(f) == f \o "=apdx7(u" \o SubSeq(f, 2, 2) \o ")"
FromH(f) == f \o "=apdx7(h" \o SubSeq(f, 2, 2) \o ")"
TableInversions(f) == {FromU(f), FromH(f)}

\* A formula of f other than a table inversion is legal in the mode and has
\* every input known in the view.
ClosedFormApplicable(c, f, view, cas) ==
    \E i \in 1..Len(RuleList(c, f)) :
       /\ RuleList(c, f)[i].tag \notin TableInversions(f)
       /\ Applicable(RuleList(c, f)[i], view, cas)

(* C34: T2, T3 or T4 is committed from a table-lookup inversion (from u, or
   from h when u is unknown) only when no closed-form formula of the field
   has all its inputs known; when one has, the committed value is not the
   table inversion.  Both cycles, both modes. *)
C34_Step ==
    \A f \in Committed \cap {"T2", "T3", "T4"} :
       /\ variables'[f] \in TableInversions(f) =>
             ~ClosedFormApplicable(cycle, f, View(f), cold_air_standard)
       /\ variables'[f] = FromH(f) => unknown(View(f)["u" \o SubSeq(f, 2, 2)])

C34_TableLast == [][C34_Step]_vars

C34_Witness ==
    /\ pc = "done"
    /\ \E f \in {"T2", "T3", "T4"} :
          /\ unknown(init[f]) /\ variables[f] = FromU(f)
          /\ ~ClosedFormApplicable(cycle, f, init, cold_air_standard)

(* C35: in the Otto state-3 block, when P3 is unknown and T2, T3 and P2 are
   known, P3 is committed by the isochoric relation P3 = P2*(T3/T2), ahead of
   the isentropic formula from P4, v4, v3, gamma and of the ideal-gas formula
   from T3, v3, R. *)
C35_Step ==
    (/\ pc = "step_3" /\ cycle = "otto"
     /\ unknown(variables["P3"])
     /\ \A g \in {"T2", "T3", "P2"} : known(View("P3")[g]))
    => variables'["P3"] = "P3=P2*(T3/T2)"

C35_IsochoricFirst == [][C35_Step]_vars

\* One column of the stored saturation table of the call.
SatColumn(c) == [i \in DOMAIN data[arg.apdx] |-> data[arg.apdx][i][c]]

\* One np.interp of the temperature column over the saturated-liquid (x = 0)
\* or saturated-vapor (x = 1) column of knownVar, at knownValue.
DirectInversion ==
    sat_interp(arg.known_var_value,
               SatColumn(arg.known_var \o (IF arg.quality = Q(0) THEN "f" ELSE "g")),
               SatColumn("Tsat"))

(* C36: in vars_from_x_and_quality_var, when x is exactly 0 or exactly 1 the
   temperature of the record is the single 1-D lookup of the saturated-liquid
   (x = 0) or saturated-vapor (x = 1) column of knownVar at knownValue, with
   no bracket check and no root search; for every other x the root-finder
   path is taken: the bracket check, then the root search. *)
C36_DirectOrSearch ==
    (Called("vars_from_x_and_quality_var") /\ KnownIdentifiers) =>
       IF arg.quality \in {Q(0), Q(1)}
       THEN /\ output.kind = "return"
            /\ output.search = "direct"
            /\ output.state["T"] = Number(DirectInversion)
       ELSE /\ output.search # "direct"
            /\ output.kind \in {"return", "ValueError"}
            /\ output.kind = "return" => output.search = "root_scalar"

\* A saturated-vapor call that returns although the bracket test would fail.
C36_Witness ==
    /\ Called("vars_from_x_and_quality_var") /\ KnownIdentifiers
    /\ arg.quality = Q(1)
    /\ ~OppositeSigns(BracketEnd(T_min(arg.apdx)), BracketEnd(T_max(arg.apdx)))
    /\ output.kind = "return" /\ output.search = "direct"
    /\ output.state["T"] = Number(DirectInversion)

(***************************************************************************)
(* The solver helpers known, unknown and equalize as pure functions.  A    *)
(* float is its printed text; np.isnan is true of the NaN marker only, so  *)
(* the infinities are known values.                                        *)
(***************************************************************************)
MaxFloat == 8

Floats == {NaN, "inf", "-inf"} \cup {ToString(n) : n \in 0..MaxFloat}

\* The variant of equalize that copies var2 whenever it is known.
equalize_overwrite(var1, var2) ==
    IF known(var2) THEN <<var2, var2>>
    ELSE IF unknown(var2) /\ known(var1) THEN <<var1, var1>>
    ELSE <<var1, var2>>

equalize(var1, var2) ==
    IF unknown(var1) /\ known(var2) THEN <<var2, var2>>
    ELSE IF unknown(var2) /\ known(var1) THEN <<var1, var1>>
    ELSE <<var1, var2>>

NoHelperCall == [func |-> "none", var1 |-> NaN, var2 |-> NaN,
                 known |-> FALSE, unknown |-> FALSE]

HelperInit ==
    /\ cycle = "otto"
    /\ cold_air_standard = FALSE
    /\ variables = define_empty_variables("otto")
    /\ pc = "idle"
    /\ counter = 0
    /\ previous_nan_count = 0
    /\ init = variables
    /\ stamp = [f \in Fields("otto") |-> <<0, 0>>]
    /\ data = <<>>
    /\ arg \in [var1 : Floats, var2 : Floats]
    /\ output = NoHelperCall

\* var1, var2 = equalize(var1, var2)
Equalize ==
    /\ output.func = "none"
    /\ LET pair == equalize(arg.var1, arg.var2)
       IN output' = [NoHelperCall EXCEPT !.func = "equalize",
                                         !.var1 = pair[1], !.var2 = pair[2]]
    /\ UNCHANGED <<solverVars, data, arg>>

\* known(var1) and unknown(var1) of the same value.
KnownUnknown ==
    /\ output.func = "none"
    /\ output' = [NoHelperCall EXCEPT !.func = "known", !.var1 = arg.var1,
                                      !.known = known(arg.var1),
                                      !.unknown = unknown(arg.var1)]
    /\ UNCHANGED <<solverVars, data, arg>>

HelperNext == Equalize \/ KnownUnknown

HelperSpec == HelperInit /\ [][HelperNext]_vars

\* np.isnan of a float.
IsMarker(v) == v = "nan"

(* C37: equalize(a, b) returns a pair in which, when exactly one of a and b
   is known, both components equal the known one; when both are known (even
   with different values) or both are unknown, it returns (a, b) unchanged;
   known(v) and unknown(v) are complementary for every number and for the
   unknown marker. *)
C37_Equalize ==
    LET a == arg.var1
        b == arg.var2
    IN /\ output.func = "equalize" =>
            /\ (~IsMarker(a) /\ IsMarker(b)) => output.var1 = a /\ output.var2 = a
            /\ (IsMarker(a) /\ ~IsMarker(b)) => output.var1 = b /\ output.var2 = b
            /\ (IsMarker(a) <=> IsMarker(b)) => output.var1 = a /\ output.var2 = b
       /\ output.func = "known" =>
            /\ output.known = ~output.unknown
            /\ output.unknown = IsMarker(a)

C37_Witness ==
    /\ output.func = "equalize"
    /\ IsMarker(arg.var1) /\ ~IsMarker(arg.var2)
    /\ output.var1 = arg.var2 /\ output.var2 = arg.var2

=============================================================================
